---- MODULE Spec2Model ----
(***************************************************************************)
(* rust-hwi: a typed client for the HWI hardware-wallet tool.              *)
(*                                                                         *)
(* Two specifications are developed here.                                  *)
(*   Spec        the subprocess backend (BinaryHWIImplementation): a       *)
(*               caller creates clients and calls operations one after     *)
(*               the other; every operation builds a token vector and      *)
(*               hands it to the executor through run_hwi_command.         *)
(*   SpecDecode  the response decoders and conversions (ErrorCode,         *)
(*               HWIDeviceInternal -> HWIDevice, HWIStatus -> Result, the   *)
(*               tolerant enumerate decode and the lifecycle operations    *)
(*               of the client facade), each applied once to an input      *)
(*               drawn from a bounded set.                                 *)
(*                                                                         *)
(* Encodings.  Option<T>: None is <<>>, Some(x) is <<x>>.  Result<T,E>: a  *)
(* record [tag, val] with tag "Ok" or "Err"; a panic (an expect that      *)
(* fails) is the third outcome, tag "Panic".  A token is a TLA+ string;    *)
(* an argument vector is a sequence of tokens.                             *)
(***************************************************************************)
EXTENDS Integers, Sequences, FiniteSets, TLC

VARIABLES
    client,     \* the subprocess-backend client the caller holds: Option<BinaryHWIImplementation>
    pc,         \* the caller's position: "idle"/"returned" (Spec), "call"/"done" (SpecDecode)
    op,         \* the operation in progress or just returned, with its inputs
    sent,       \* the token vector handed to the executor by the operation
    executed,   \* whether the operation invoked the executor
    ret,        \* what the operation returned
    threads,    \* the threads that call concurrently (SpecThreads, SpecPython):
                \* thread |-> its position, operation, arguments and result
    gil         \* the interpreter lock of the embedded backend: Option<thread>

vars == <<client, pc, op, sent, executed, ret, threads, gil>>

----------------------------------------------------------------------------
(* Bounds of the model. *)

\* accounts are drawn from 0..MaxAccount
MaxAccount == 1
\* key-pool start and end are drawn from 0..MaxIndex
MaxIndex == 1
\* the executor's enumerate answer holds at most MaxDevices records
MaxDevices == 2
\* a descriptor text of display_address_with_desc has at most MaxDescriptorLen
\* characters
MaxDescriptorLen == 3

\* the payload of the tolerant enumerate decode holds at most MaxPayloadLen records
MaxPayloadLen == 2

\* the threads that call concurrently are 1..MaxThreads
MaxThreads == 2

----------------------------------------------------------------------------
(* Option and Result. *)

None == <<>>
Some(x) == <<x>>

Ok(v) == [tag |-> "Ok", val |-> v]
Err(e) == [tag |-> "Err", val |-> e]
Panic(m) == [tag |-> "Panic", val |-> m]

\* the unit value ()
Unit == "()"

\* Option::and_then and Result::ok, as used by the conversions
ResultOk(r) == IF r.tag = "Ok" THEN Some(r.val) ELSE None

----------------------------------------------------------------------------
(* error.rs *)

\* Error::Hwi(String, Option<ErrorCode>) and the other kinds of Error.  A
\* message is a sequence of parts: the pieces a format! is made of.
Hwi(msg, code) == [kind |-> "Hwi", msg |-> msg, code |-> code]
ErrorJson(diag) == [kind |-> "Json", msg |-> <<diag>>, code |-> None]
ErrorPython(e) == [kind |-> "Python", msg |-> <<e>>, code |-> None]
ErrorNotImplemented == [kind |-> "NotImplemented", msg |-> <<>>, code |-> None]

\* enum ErrorCode with its explicit discriminants (repr(u8))
ErrorCodeRepr ==
    [ NoDeviceType |-> 1, MissingArguments |-> 2, DeviceConnError |-> 3,
      UnknownDeviceType |-> 4, InvalidTx |-> 5, NoPassword |-> 6,
      BadArgument |-> 7, NotImplemented |-> 8, UnavailableAction |-> 9,
      DeviceAlreadyInit |-> 10, DeviceAlreadyUnlocked |-> 11,
      DeviceNotReady |-> 12, UnknownError |-> 13, ActionCanceled |-> 14,
      DeviceBusy |-> 15, NeedToBeRoot |-> 16, HelpText |-> 17,
      DeviceNotInitialized |-> 18 ]

ErrorCode == DOMAIN ErrorCodeRepr

\* the values of i8, and the cast of an integer to i8 (two's complement)
I8Min == -128
I8Max == 127
I8 == I8Min..I8Max
AsI8(n) == LET m == n % 256 IN IF m > I8Max THEN m - 256 ELSE m

\* ErrorCode::as_i8: the discriminant cast to i8 and negated
as_i8(code) == AsI8(0 - AsI8(ErrorCodeRepr[code]))

\* impl TryFrom<i8> for ErrorCode with a fault: the arm of -18 is missing
ErrorCode_try_from_NoLastArm(code) ==
    CASE code = -1 -> Ok("NoDeviceType")
      [] code = -2 -> Ok("MissingArguments")
      [] code = -3 -> Ok("DeviceConnError")
      [] code = -4 -> Ok("UnknownDeviceType")
      [] code = -5 -> Ok("InvalidTx")
      [] code = -6 -> Ok("NoPassword")
      [] code = -7 -> Ok("BadArgument")
      [] code = -8 -> Ok("NotImplemented")
      [] code = -9 -> Ok("UnavailableAction")
      [] code = -10 -> Ok("DeviceAlreadyInit")
      [] code = -11 -> Ok("DeviceAlreadyUnlocked")
      [] code = -12 -> Ok("DeviceNotReady")
      [] code = -13 -> Ok("UnknownError")
      [] code = -14 -> Ok("ActionCanceled")
      [] code = -15 -> Ok("DeviceBusy")
      [] code = -16 -> Ok("NeedToBeRoot")
      [] code = -17 -> Ok("HelpText")
      [] OTHER -> Err(Hwi(<<"invalid error code">>, None))

\* impl TryFrom<i8> for ErrorCode
ErrorCode_try_from(code) ==
    CASE code = -1 -> Ok("NoDeviceType")
      [] code = -2 -> Ok("MissingArguments")
      [] code = -3 -> Ok("DeviceConnError")
      [] code = -4 -> Ok("UnknownDeviceType")
      [] code = -5 -> Ok("InvalidTx")
      [] code = -6 -> Ok("NoPassword")
      [] code = -7 -> Ok("BadArgument")
      [] code = -8 -> Ok("NotImplemented")
      [] code = -9 -> Ok("UnavailableAction")
      [] code = -10 -> Ok("DeviceAlreadyInit")
      [] code = -11 -> Ok("DeviceAlreadyUnlocked")
      [] code = -12 -> Ok("DeviceNotReady")
      [] code = -13 -> Ok("UnknownError")
      [] code = -14 -> Ok("ActionCanceled")
      [] code = -15 -> Ok("DeviceBusy")
      [] code = -16 -> Ok("NeedToBeRoot")
      [] code = -17 -> Ok("HelpText")
      [] code = -18 -> Ok("DeviceNotInitialized")
      [] OTHER -> Err(Hwi(<<"invalid error code">>, None))

----------------------------------------------------------------------------
(* Text conversions. *)

Digit(d) ==
    CASE d = 0 -> "0" [] d = 1 -> "1" [] d = 2 -> "2" [] d = 3 -> "3"
      [] d = 4 -> "4" [] d = 5 -> "5" [] d = 6 -> "6" [] d = 7 -> "7"
      [] d = 8 -> "8" [] d = 9 -> "9"

\* u32::to_string / u8::to_string: the decimal digits, most significant first
RECURSIVE NatToString(_)
NatToString(n) ==
    IF n < 10 THEN Digit(n) ELSE NatToString(n \div 10) \o Digit(n % 10)

\* the Display of a signed integer
IntToString(n) == IF n < 0 THEN "-" \o NatToString(0 - n) ELSE NatToString(n)

HexDigit(d) ==
    CASE d < 10 -> Digit(d)
      [] d = 10 -> "a" [] d = 11 -> "b" [] d = 12 -> "c"
      [] d = 13 -> "d" [] d = 14 -> "e" [] d = 15 -> "f"

\* the value of one hexadecimal character, None when it is not one
HexValue(c) ==
    CASE c = "0" -> Some(0) [] c = "1" -> Some(1) [] c = "2" -> Some(2)
      [] c = "3" -> Some(3) [] c = "4" -> Some(4) [] c = "5" -> Some(5)
      [] c = "6" -> Some(6) [] c = "7" -> Some(7) [] c = "8" -> Some(8)
      [] c = "9" -> Some(9)
      [] c \in {"a", "A"} -> Some(10) [] c \in {"b", "B"} -> Some(11)
      [] c \in {"c", "C"} -> Some(12) [] c \in {"d", "D"} -> Some(13)
      [] c \in {"e", "E"} -> Some(14) [] c \in {"f", "F"} -> Some(15)
      [] OTHER -> None

\* Fingerprint: 4 bytes.  Its Deserialize reads 8 hexadecimal characters (the
\* JSON string is given as its sequence of characters); its Display writes
\* them in lower case.
FingerprintLen == 4

Fingerprint_from_str(chars) ==
    IF Len(chars) # 2 * FingerprintLen
       \/ \E i \in 1..Len(chars) : HexValue(chars[i]) = None
    THEN Err("invalid fingerprint")
    ELSE Ok([i \in 1..FingerprintLen |->
                16 * HexValue(chars[2 * i - 1])[1] + HexValue(chars[2 * i])[1]])

RECURSIVE HexBytes(_)
HexBytes(bytes) ==
    IF bytes = <<>> THEN ""
    ELSE HexDigit(Head(bytes) \div 16) \o HexDigit(Head(bytes) % 16)
         \o HexBytes(Tail(bytes))

Fingerprint_to_string(fp) == HexBytes(fp)

----------------------------------------------------------------------------
(* JSON text.                                                              *)
(* The text a backend returns is a value of one of three kinds: text that  *)
(* is not JSON ("notjson", with the raw text), a JSON array of objects     *)
(* ("array") or a JSON object ("object").  An object holds any subset of   *)
(* the keys below; an absent key is None.  The value of the key signature   *)
(* is a JSON string or a JSON array of numbers; the values of internal and *)
(* receive are arrays of strings.                                          *)

EmptyObject ==
    [ type |-> None, model |-> None, path |-> None, needs_pin_sent |-> None,
      needs_passphrase_sent |-> None, fingerprint |-> None, error |-> None,
      code |-> None, success |-> None, xpub |-> None, address |-> None,
      signature |-> None, internal |-> None, receive |-> None ]

\* a JSON string, as its characters, and a JSON array of numbers
JString(chars) == [t |-> "string", v |-> chars]
JNumbers(numbers) == [t |-> "array", v |-> numbers]

NotJsonText(raw) == [kind |-> "notjson", raw |-> raw, items |-> <<>>, obj |-> EmptyObject]
JsonArray(items) == [kind |-> "array", raw |-> "", items |-> items, obj |-> EmptyObject]
JsonObject(o) == [kind |-> "object", raw |-> "", items |-> <<>>, obj |-> o]

\* serde_json::from_str: the text parsed as a generic Value
serde_json_from_str(text) ==
    IF text.kind = "notjson"
    THEN Err(ErrorJson("expected value at line 1 column 1"))
    ELSE Ok(text)

RECURSIVE Concat(_)
Concat(chars) == IF chars = <<>> THEN "" ELSE Head(chars) \o Concat(Tail(chars))

RECURSIVE Join(_)
Join(parts) ==
    IF parts = <<>> THEN ""
    ELSE IF Len(parts) = 1 THEN Head(parts)
    ELSE Head(parts) \o "," \o Join(Tail(parts))

Quoted(s) == "\"" \o s \o "\""
Member(key, opt, text) == IF opt = None THEN <<>> ELSE <<Quoted(key) \o ":" \o text>>
BoolText(b) == IF b THEN "true" ELSE "false"
StringsText(strings) ==
    "[" \o Join([i \in 1..Len(strings) |-> Quoted(strings[i])]) \o "]"
StringOrNumbersText(j) ==
    IF j.t = "string" THEN Quoted(Concat(j.v))
    ELSE "[" \o Join([i \in 1..Len(j.v) |-> NatToString(j.v[i])]) \o "]"

\* Display of a serde_json Value that is an object: compact, keys sorted
DisplayObject(o) ==
    "{" \o Join(
        Member("address", o.address,
               IF o.address = None THEN "" ELSE Quoted(o.address[1]))
        \o Member("code", o.code, IF o.code = None THEN "" ELSE IntToString(o.code[1]))
        \o Member("error", o.error, IF o.error = None THEN "" ELSE Quoted(o.error[1]))
        \o Member("fingerprint", o.fingerprint,
                  IF o.fingerprint = None THEN "" ELSE Quoted(Concat(o.fingerprint[1])))
        \o Member("internal", o.internal,
                  IF o.internal = None THEN "" ELSE StringsText(o.internal[1]))
        \o Member("model", o.model, IF o.model = None THEN "" ELSE Quoted(o.model[1]))
        \o Member("needs_passphrase_sent", o.needs_passphrase_sent,
                  IF o.needs_passphrase_sent = None THEN ""
                  ELSE BoolText(o.needs_passphrase_sent[1]))
        \o Member("needs_pin_sent", o.needs_pin_sent,
                  IF o.needs_pin_sent = None THEN "" ELSE BoolText(o.needs_pin_sent[1]))
        \o Member("path", o.path, IF o.path = None THEN "" ELSE Quoted(o.path[1]))
        \o Member("receive", o.receive,
                  IF o.receive = None THEN "" ELSE StringsText(o.receive[1]))
        \o Member("signature", o.signature,
                  IF o.signature = None THEN ""
                  ELSE StringOrNumbersText(o.signature[1]))
        \o Member("success", o.success,
                  IF o.success = None THEN "" ELSE BoolText(o.success[1]))
        \o Member("type", o.type, IF o.type = None THEN "" ELSE Quoted(o.type[1]))
        \o Member("xpub", o.xpub, IF o.xpub = None THEN "" ELSE Quoted(o.xpub[1])))
    \o "}"

\* Display of a serde_json Value
DisplayValue(v) ==
    IF v.kind = "array"
    THEN "[" \o Join([i \in 1..Len(v.items) |-> DisplayObject(v.items[i])]) \o "]"
    ELSE DisplayObject(v.obj)

\* the first element of a sequence of results that is an error, or
\* Ok of the sequence of values: how serde fills a Vec
FirstFailure(results) ==
    IF \E i \in 1..Len(results) : results[i].tag = "Err"
    THEN results[CHOOSE i \in 1..Len(results) :
                    /\ results[i].tag = "Err"
                    /\ \A j \in 1..(i - 1) : results[j].tag = "Ok"]
    ELSE Ok([i \in 1..Len(results) |-> results[i].val])

----------------------------------------------------------------------------
(* types.rs *)

\* enum HWIDeviceType; Other carries the name
DeviceType(variant) == [variant |-> variant, name |-> ""]
Other(name) == [variant |-> "Other", name |-> name]

\* impl<T: AsRef<str>> From<T> for HWIDeviceType
HWIDeviceType_from(s) ==
    CASE s = "ledger" -> DeviceType("Ledger")
      [] s = "trezor" -> DeviceType("Trezor")
      [] s = "digitalbitbox" -> DeviceType("BitBox01")
      [] s = "bitbox02" -> DeviceType("BitBox02")
      [] s = "keepkey" -> DeviceType("KeepKey")
      [] s = "coldcard" -> DeviceType("Coldcard")
      [] s = "jade" -> DeviceType("Jade")
      [] OTHER -> Other(s)

\* impl Display for HWIDeviceType
HWIDeviceType_to_string(t) ==
    CASE t.variant = "Ledger" -> "ledger"
      [] t.variant = "Trezor" -> "trezor"
      [] t.variant = "BitBox01" -> "digitalbitbox"
      [] t.variant = "BitBox02" -> "bitbox02"
      [] t.variant = "KeepKey" -> "keepkey"
      [] t.variant = "Coldcard" -> "coldcard"
      [] t.variant = "Jade" -> "jade"
      [] OTHER -> t.name

\* #[derive(Deserialize)] #[serde(rename_all = "lowercase")] on HWIDeviceType,
\* given a JSON string: the unit variants by their lower-cased names; Other is
\* a newtype variant, which a plain string cannot give
HWIDeviceType_deserialize(s) ==
    CASE s = "ledger" -> Ok(DeviceType("Ledger"))
      [] s = "trezor" -> Ok(DeviceType("Trezor"))
      [] s = "bitbox01" -> Ok(DeviceType("BitBox01"))
      [] s = "bitbox02" -> Ok(DeviceType("BitBox02"))
      [] s = "keepkey" -> Ok(DeviceType("KeepKey"))
      [] s = "coldcard" -> Ok(DeviceType("Coldcard"))
      [] s = "jade" -> Ok(DeviceType("Jade"))
      [] s = "other" -> Err("invalid type: unit variant, expected newtype variant")
      [] OTHER -> Err("unknown variant '" \o s \o "'")

\* #[derive(Deserialize)] on HWIDeviceInternal: every field is optional; a
\* code must fit i8 and a fingerprint must parse
HWIDeviceInternal_deserialize(o) ==
    LET fp == IF o.fingerprint = None THEN Ok(None)
              ELSE LET p == Fingerprint_from_str(o.fingerprint[1]) IN
                   IF p.tag = "Ok" THEN Ok(Some(p.val)) ELSE p
    IN
    IF o.code # None /\ o.code[1] \notin I8
    THEN Err("invalid value: integer '" \o IntToString(o.code[1]) \o "', expected i8")
    ELSE IF fp.tag = "Err" THEN fp
    ELSE Ok([ device_type |-> o.type, model |-> o.model, path |-> o.path,
              needs_pin_sent |-> o.needs_pin_sent,
              needs_passphrase_sent |-> o.needs_passphrase_sent,
              fingerprint |-> fp.val, error |-> o.error, code |-> o.code ])

\* #[derive(Deserialize)] on HWIDevice: every field is required, keys that
\* are no field of it (error, code) are ignored
HWIDevice_deserialize(o) ==
    LET fp == IF o.fingerprint = None THEN Err("missing field 'fingerprint'")
              ELSE Fingerprint_from_str(o.fingerprint[1])
        ty == IF o.type = None THEN Err("missing field 'type'")
              ELSE HWIDeviceType_deserialize(o.type[1])
    IN
    IF o.fingerprint # None /\ fp.tag = "Err" THEN fp
    ELSE IF o.type # None /\ ty.tag = "Err" THEN ty
    ELSE IF o.type = None THEN ty
    ELSE IF o.model = None THEN Err("missing field 'model'")
    ELSE IF o.path = None THEN Err("missing field 'path'")
    ELSE IF o.needs_pin_sent = None THEN Err("missing field 'needs_pin_sent'")
    ELSE IF o.needs_passphrase_sent = None
         THEN Err("missing field 'needs_passphrase_sent'")
    ELSE IF o.fingerprint = None THEN fp
    ELSE Ok([ device_type |-> ty.val, model |-> o.model[1], path |-> o.path[1],
              needs_pin_sent |-> o.needs_pin_sent[1],
              needs_passphrase_sent |-> o.needs_passphrase_sent[1],
              fingerprint |-> fp.val ])

\* impl TryFrom<HWIDeviceInternal> for HWIDevice with a fault: the failure of
\* ErrorCode::try_from is propagated (try_from(c)?) instead of dropped (.ok())
HWIDevice_try_from_CodeErrorPropagated(h) ==
    IF h.error # None
    THEN IF h.code # None /\ ErrorCode_try_from(h.code[1]).tag = "Err"
         THEN ErrorCode_try_from(h.code[1])
         ELSE Err(Hwi(<<h.error[1]>>,
                      IF h.code = None THEN None
                      ELSE Some(ErrorCode_try_from(h.code[1]).val)))
    ELSE IF h.device_type = None THEN Panic("Device type should be here")
    ELSE IF h.model = None THEN Panic("Model should be here")
    ELSE IF h.path = None THEN Panic("Path should be here")
    ELSE IF h.needs_pin_sent = None THEN Panic("needs_pin_sent should be here")
    ELSE IF h.needs_passphrase_sent = None
         THEN Panic("needs_passphrase_sent should be here")
    ELSE IF h.fingerprint = None THEN Panic("Fingerprint should be here")
    ELSE Ok([ device_type |-> HWIDeviceType_from(h.device_type[1]),
              model |-> h.model[1], path |-> h.path[1],
              needs_pin_sent |-> h.needs_pin_sent[1],
              needs_passphrase_sent |-> h.needs_passphrase_sent[1],
              fingerprint |-> h.fingerprint[1] ])

\* impl TryFrom<HWIDeviceInternal> for HWIDevice.  With an error string the
\* result is Err(Hwi(e, code)), code being h.code.and_then(try_from(c).ok());
\* without one every field is taken with expect, which panics on None
HWIDevice_try_from(h) ==
    IF h.error # None
    THEN LET code == IF h.code = None THEN None
                     ELSE ResultOk(ErrorCode_try_from(h.code[1]))
         IN Err(Hwi(<<h.error[1]>>, code))
    ELSE IF h.device_type = None THEN Panic("Device type should be here")
    ELSE IF h.model = None THEN Panic("Model should be here")
    ELSE IF h.path = None THEN Panic("Path should be here")
    ELSE IF h.needs_pin_sent = None THEN Panic("needs_pin_sent should be here")
    ELSE IF h.needs_passphrase_sent = None
         THEN Panic("needs_passphrase_sent should be here")
    ELSE IF h.fingerprint = None THEN Panic("Fingerprint should be here")
    ELSE Ok([ device_type |-> HWIDeviceType_from(h.device_type[1]),
              model |-> h.model[1], path |-> h.path[1],
              needs_pin_sent |-> h.needs_pin_sent[1],
              needs_passphrase_sent |-> h.needs_passphrase_sent[1],
              fingerprint |-> h.fingerprint[1] ])

\* #[derive(Deserialize)] on HWIStatus: an object with the boolean success
HWIStatus_deserialize(v) ==
    IF v.kind = "array" THEN
        IF v.items = <<>>
        THEN Err("invalid length 0, expected struct HWIStatus with 1 element")
        ELSE Err("invalid type: map, expected a boolean")
    ELSE IF v.obj.success = None THEN Err("missing field 'success'")
    ELSE Ok([success |-> v.obj.success[1]])

\* the strings that are the base58check encoding of an extended public key
ValidXpubs == {"tpubDCwYjpDhUdPGP5rS3wgNg13mTrrjBuG8V9VpWbyptX6TRPbNoZVXsoVUSkCjmQ8jJycjuDKBb9eataSymXakTTaGifxR6kmVsfFehH1ZgJT"}

\* Display of an Xpub: its base58check encoding, by which the model names it
Xpub_to_string(xpub) == xpub

\* Xpub::from_str
Xpub_from_str(string) ==
    IF string \in ValidXpubs THEN Ok(string) ELSE Err("base58 encoding error")

\* #[derive(Deserialize)] on HWIExtendedPubKey: an object with the xpub string
HWIExtendedPubKey_deserialize(v) ==
    IF v.kind = "array" THEN
        IF v.items = <<>>
        THEN Err("invalid length 0, expected struct HWIExtendedPubKey with 1 element")
        ELSE Err("invalid type: map, expected a string")
    ELSE IF v.obj.xpub = None THEN Err("missing field 'xpub'")
    ELSE LET xpub == Xpub_from_str(v.obj.xpub[1]) IN
         IF xpub.tag = "Err" THEN xpub ELSE Ok([xpub |-> xpub.val])

\* #[derive(Serialize)] on HWIExtendedPubKey
HWIExtendedPubKey_serialize(k) ==
    JsonObject([EmptyObject EXCEPT !.xpub = Some(Xpub_to_string(k.xpub))])

\* the alphabet of base64::engine::general_purpose::STANDARD
B64Alphabet ==
    << "A", "B", "C", "D", "E", "F", "G", "H", "I", "J", "K", "L", "M", "N", "O", "P",
       "Q", "R", "S", "T", "U", "V", "W", "X", "Y", "Z", "a", "b", "c", "d", "e", "f",
       "g", "h", "i", "j", "k", "l", "m", "n", "o", "p", "q", "r", "s", "t", "u", "v",
       "w", "x", "y", "z", "0", "1", "2", "3", "4", "5", "6", "7", "8", "9", "+", "/" >>

IsB64(c) == \E i \in 1..Len(B64Alphabet) : B64Alphabet[i] = c
B64Value(c) == (CHOOSE i \in 1..Len(B64Alphabet) : B64Alphabet[i] = c) - 1

\* the bytes of one group of four characters; the last group of a text may
\* end in one or two '=' and then its unused bits are zero
B64Group(g, last) ==
    IF IsB64(g[1]) /\ IsB64(g[2]) /\ IsB64(g[3]) /\ IsB64(g[4]) THEN
        LET n == B64Value(g[1]) * 262144 + B64Value(g[2]) * 4096
                 + B64Value(g[3]) * 64 + B64Value(g[4])
        IN Ok(<<n \div 65536, (n \div 256) % 256, n % 256>>)
    ELSE IF last /\ IsB64(g[1]) /\ IsB64(g[2]) /\ IsB64(g[3]) /\ g[4] = "=" THEN
        LET n == B64Value(g[1]) * 4096 + B64Value(g[2]) * 64 + B64Value(g[3])
        IN IF n % 4 = 0 THEN Ok(<<n \div 1024, (n \div 4) % 256>>)
           ELSE Err("Invalid last symbol")
    ELSE IF last /\ IsB64(g[1]) /\ IsB64(g[2]) /\ g[3] = "=" /\ g[4] = "=" THEN
        LET n == B64Value(g[1]) * 64 + B64Value(g[2])
        IN IF n % 16 = 0 THEN Ok(<<n \div 16>>) ELSE Err("Invalid last symbol")
    ELSE Err("Invalid byte")

\* STANDARD.decode: padded base64 text, as its characters, to bytes
RECURSIVE STANDARD_decode(_)
STANDARD_decode(chars) ==
    IF chars = <<>> THEN Ok(<<>>)
    ELSE IF Len(chars) < 4 THEN Err("Invalid padding")
    ELSE LET group == B64Group(SubSeq(chars, 1, 4), Len(chars) = 4)
             rest == STANDARD_decode(SubSeq(chars, 5, Len(chars)))
         IN IF group.tag = "Err" THEN group
            ELSE IF rest.tag = "Err" THEN rest
            ELSE Ok(group.val \o rest.val)

\* fn from_b64: the value must be a JSON string, and that string base64
from_b64(j) ==
    IF j.t # "string" THEN Err("invalid type: sequence, expected a string")
    ELSE IF STANDARD_decode(j.v).tag = "Err"
         THEN Err("error while deserializing signature")
         ELSE Ok(STANDARD_decode(j.v).val)

\* #[derive(Deserialize)] on HWISignature, the field read through from_b64
HWISignature_deserialize(v) ==
    IF v.kind = "array" THEN
        IF v.items = <<>>
        THEN Err("invalid length 0, expected struct HWISignature with 1 element")
        ELSE Err("invalid type: map, expected a string")
    ELSE IF v.obj.signature = None THEN Err("missing field 'signature'")
    ELSE LET signature == from_b64(v.obj.signature[1]) IN
         IF signature.tag = "Err" THEN signature
         ELSE Ok([signature |-> signature.val])

\* #[derive(Serialize)] on HWISignature: the field has no serialize_with, so
\* the bytes of the Vec<u8> are written as a JSON array of numbers
HWISignature_serialize(s) ==
    JsonObject([EmptyObject EXCEPT !.signature = Some(JNumbers(s.signature))])

\* the strings that are the encoding of an address
ValidAddresses ==
    { "bcrt1qw508d6qejxtdg4y5r3zarvary0c5xw7kygt080",
      "2N3oefVeg6stiTb5Kh3ozCSkaqmx91FDbsm" }

\* Address::<NetworkUnchecked>::from_str and its Display
Address_from_str(string) ==
    IF string \in ValidAddresses THEN Ok(string) ELSE Err("base58 error")
Address_to_string(address) == address

\* #[derive(Deserialize, Serialize)] on HWIAddress
HWIAddress_deserialize(v) ==
    IF v.kind = "array" THEN
        IF v.items = <<>>
        THEN Err("invalid length 0, expected struct HWIAddress with 1 element")
        ELSE Err("invalid type: map, expected a string")
    ELSE IF v.obj.address = None THEN Err("missing field 'address'")
    ELSE LET address == Address_from_str(v.obj.address[1]) IN
         IF address.tag = "Err" THEN address ELSE Ok([address |-> address.val])

HWIAddress_serialize(a) ==
    JsonObject([EmptyObject EXCEPT !.address = Some(Address_to_string(a.address))])

\* #[derive(Deserialize, Serialize)] on HWIDescriptor<String>
HWIDescriptor_deserialize(v) ==
    IF v.kind = "array" THEN
        IF v.items = <<>>
        THEN Err("invalid length 0, expected struct HWIDescriptor with 2 elements")
        ELSE Err("invalid type: map, expected a sequence")
    ELSE IF v.obj.internal = None THEN Err("missing field 'internal'")
    ELSE IF v.obj.receive = None THEN Err("missing field 'receive'")
    ELSE Ok([internal |-> v.obj.internal[1], receive |-> v.obj.receive[1]])

HWIDescriptor_serialize(d) ==
    JsonObject([EmptyObject EXCEPT !.internal = Some(d.internal),
                                   !.receive = Some(d.receive)])

\* impl From<HWIStatus> for Result<(), Error> with a fault: the flag is ignored
HWIStatus_into_AlwaysOk(s) == Ok(Unit)

\* impl From<HWIStatus> for Result<(), Error>
HWIStatus_into(s) ==
    IF s.success THEN Ok(Unit)
    ELSE Err(Hwi(<<"request returned with failure">>, None))

\* Display for HWIChain with a fault: Testnet is written as MAIN
HWIChain_to_string_TestAsMain(chain) ==
    CASE chain = "Bitcoin" -> "MAIN"
      [] chain = "Testnet" -> "MAIN"
      [] chain = "Regtest" -> "REGTEST"
      [] chain = "Signet" -> "SIGNET"
      [] OTHER -> "UNKNOWN"

\* impl Display for HWIChain
HWIChain_to_string(chain) ==
    CASE chain = "Bitcoin" -> "MAIN"
      [] chain = "Testnet" -> "TEST"
      [] chain = "Regtest" -> "REGTEST"
      [] chain = "Signet" -> "SIGNET"
      [] OTHER -> "UNKNOWN"

\* impl Display for HWIAddressType
HWIAddressType_to_string(a) ==
    CASE a = "Legacy" -> "LEGACY"
      [] a = "Sh_Wit" -> "SH_WIT"
      [] a = "Wit" -> "WIT"
      [] a = "Tap" -> "TAP"

----------------------------------------------------------------------------
(* Inputs of SpecDecode: what the interpreter or the tool may answer.      *)

Chars(a, b, c, d, e, f, g, h) == <<a, b, c, d, e, f, g, h>>

\* three complete device objects of an enumerate answer
ObjLedger ==
    [EmptyObject EXCEPT
        !.type = Some("ledger"), !.model = Some("ledger_nano_s"),
        !.path = Some("/dev/hidraw0"), !.needs_pin_sent = Some(FALSE),
        !.needs_passphrase_sent = Some(FALSE),
        !.fingerprint = Some(Chars("0", "0", "0", "0", "0", "0", "0", "1"))]
ObjBitBox ==
    [EmptyObject EXCEPT
        !.type = Some("digitalbitbox"), !.model = Some("digitalbitbox_01"),
        !.path = Some("/dev/hidraw1"), !.needs_pin_sent = Some(FALSE),
        !.needs_passphrase_sent = Some(TRUE),
        !.fingerprint = Some(Chars("d", "e", "a", "d", "b", "e", "e", "f"))]
ObjUnknown ==
    [EmptyObject EXCEPT
        !.type = Some("mywallet"), !.model = Some("mywallet_1"),
        !.path = Some("/dev/hidraw2"), !.needs_pin_sent = Some(TRUE),
        !.needs_passphrase_sent = Some(FALSE),
        !.fingerprint = Some(Chars("D", "E", "A", "D", "B", "E", "E", "F"))]

\* a device object with one field absent
ObjsFieldAbsent ==
    { [ObjLedger EXCEPT !.type = None], [ObjLedger EXCEPT !.model = None],
      [ObjLedger EXCEPT !.path = None], [ObjLedger EXCEPT !.needs_pin_sent = None],
      [ObjLedger EXCEPT !.needs_passphrase_sent = None],
      [ObjLedger EXCEPT !.fingerprint = None] }

\* the numeric codes an error object may carry: recognized ones, i8 values
\* that are no code, and a number that is no i8
WireCodes == {-1, -7, -18, -19, 0, 5, I8Min, I8Max, -200}

\* objects that carry an error string
ObjsError ==
    { [EmptyObject EXCEPT !.error = Some("x")] }
    \cup { [EmptyObject EXCEPT !.error = Some("x"), !.code = Some(c)] : c \in WireCodes }
    \cup { [ObjLedger EXCEPT !.error = Some("device locked"), !.code = Some(-12)] }

\* a device object whose fingerprint is no hexadecimal string
ObjBadFingerprint == [ObjLedger EXCEPT !.fingerprint = Some(<<"z", "z">>)]

WireObjects ==
    {ObjLedger, ObjBitBox, ObjUnknown} \cup ObjsFieldAbsent \cup ObjsError
    \cup {ObjBadFingerprint}

SeqsUpTo(S, n) == UNION { [1..k -> S] : k \in 0..n }

\* what a call into the interpreter gives: an exception, or the text json.dumps
\* made of the returned value
PyRaised == Err(ErrorPython("RuntimeError"))
PyImportFailed == Err(ErrorPython("ModuleNotFoundError: hwilib"))

StatusObjects ==
    { JsonObject([EmptyObject EXCEPT !.success = Some(b)]) : b \in BOOLEAN }
ErrorObjects ==
    { JsonObject([EmptyObject EXCEPT !.error = Some("x"), !.code = Some(-7)]) }

\* the answers to getxpub: the key, a key that does not parse, and the shapes
\* other answers have
XpubObjects ==
    { JsonObject([EmptyObject EXCEPT !.xpub = Some(x)]) :
        x \in ValidXpubs \cup {"xpub-that-is-none"} }

XpubOutcomes ==
    {PyRaised, Ok(NotJsonText("NaN")), Ok(NotJsonText("garbage")),
     Ok(JsonArray(<<>>)), Ok(JsonArray(<<ObjLedger>>))}
    \cup { Ok(o) : o \in XpubObjects \cup StatusObjects \cup ErrorObjects }

\* derivation paths, as DerivationPath::to_string writes them
DerivationPaths == {"m/44'/1'/0'/0/0", "m/84'/1'/0'"}

EnumerateOutcomes ==
    {PyImportFailed, PyRaised, Ok(NotJsonText("NaN"))}
    \cup { Ok(o) : o \in ErrorObjects }
    \cup { Ok(JsonArray(items)) : items \in SeqsUpTo(WireObjects, MaxPayloadLen) }

StatusOutcomes ==
    {PyRaised, Ok(NotJsonText("NaN")), Ok(JsonArray(<<>>)), Ok(JsonArray(<<ObjLedger>>))}
    \cup { Ok(o) : o \in StatusObjects \cup ErrorObjects }

\* the HWIDeviceInternal values the wire objects decode to
DeviceInternals ==
    { HWIDeviceInternal_deserialize(o).val :
        o \in { w \in WireObjects : HWIDeviceInternal_deserialize(w).tag = "Ok" } }

Labels == {None, Some("My Label")}
Passphrases == {None, Some("pass phrase")}
\* enum HWIWordCount (repr(u8))
W12 == 12
W18 == 18
W24 == 24
WordCounts == {None, Some(W12), Some(W18), Some(W24)}

UnwrapOr(opt, default) == IF opt = None THEN default ELSE opt[1]

----------------------------------------------------------------------------
(* interface.rs: the client facade over the embedded interpreter.          *)

\* serde's Vec<HWIDeviceInternal>: a sequence, each element deserialized
Vec_HWIDeviceInternal_deserialize(v) ==
    IF v.kind # "array" THEN Err("invalid type: map, expected a sequence")
    ELSE FirstFailure([i \in 1..Len(v.items) |->
                          HWIDeviceInternal_deserialize(v.items[i])])

\* serde's Vec<HWIDevice>: a sequence, each element deserialized
Vec_HWIDevice_deserialize(v) ==
    IF v.kind # "array" THEN Err("invalid type: map, expected a sequence")
    ELSE FirstFailure([i \in 1..Len(v.items) |-> HWIDevice_deserialize(v.items[i])])

\* Vec<HWIKeyPoolElement> from a JSON value; no object of the model has the
\* key desc, so an element stops at the first field
Vec_HWIKeyPoolElement_deserialize(v) ==
    IF v.kind # "array" THEN Err("invalid type: map, expected a sequence")
    ELSE IF v.items = <<>> THEN Ok(<<>>)
    ELSE Err("missing field 'desc'")

\* serde_json::from_value into the type the call site asks for
from_value(value, target) ==
    CASE target = "Vec<HWIDeviceInternal>" -> Vec_HWIDeviceInternal_deserialize(value)
      [] target = "Vec<HWIDevice>" -> Vec_HWIDevice_deserialize(value)
      [] target = "HWIStatus" -> HWIStatus_deserialize(value)
      [] target = "HWIExtendedPubKey" -> HWIExtendedPubKey_deserialize(value)
      [] target = "HWISignature" -> HWISignature_deserialize(value)
      [] target = "HWIAddress" -> HWIAddress_deserialize(value)
      [] target = "HWIDescriptor" -> HWIDescriptor_deserialize(value)
      [] target = "Vec<HWIKeyPoolElement>" -> Vec_HWIKeyPoolElement_deserialize(value)

\* serde_json::to_string of a domain value of the named type
to_string(value, type) ==
    CASE type = "HWIExtendedPubKey" -> HWIExtendedPubKey_serialize(value)
      [] type = "HWISignature" -> HWISignature_serialize(value)
      [] type = "HWIAddress" -> HWIAddress_serialize(value)
      [] type = "HWIDescriptor" -> HWIDescriptor_serialize(value)

\* serde_json::from_str::<T> for the named type T
from_str(text, type) ==
    LET value == serde_json_from_str(text) IN
    IF value.tag = "Err" THEN value
    ELSE LET decoded == from_value(value.val, type) IN
         IF decoded.tag = "Err" THEN Err(ErrorJson(decoded.val)) ELSE decoded

\* the bytes a signature is made of, and the signatures of the model
Bytes == {0, 1, 255}
Signatures == [signature : SeqsUpTo(Bytes, MaxPayloadLen)]

\* signature texts of a sign_message answer: base64 of "M", of <<0, 1>>, of
\* <<255, 255, 255>>, a text with non-zero unused bits, and one not base64
SignatureTexts ==
    { <<"T", "Q", "=", "=">>, <<"A", "A", "E", "=">>, <<"/", "/", "/", "/">>,
      <<"T", "R", "=", "=">>, <<"T", "Q", "=">>, <<"*", "Q", "=", "=">> }

DescriptorTexts == {"wpkh([00000001/84'/1'/0']tpub/0/*)#abcdefgh", "pkh(tpub/1/*)"}
HWIDescriptors ==
    [internal : SeqsUpTo(DescriptorTexts, MaxPayloadLen),
     receive : SeqsUpTo(DescriptorTexts, MaxPayloadLen)]

\* descriptor texts, as their characters: '#' starts the checksum
DescriptorChars == {"d", "c", "#"}
DescriptorStrings == SeqsUpTo(DescriptorChars, MaxDescriptorLen)

AddressOutcomes ==
    {PyRaised}
    \cup { Ok(JsonObject([EmptyObject EXCEPT !.address = Some(a)])) :
             a \in ValidAddresses \cup {"not-an-address"} }

KeypoolOutcomes ==
    {PyRaised, Ok(JsonArray(<<>>)), Ok(JsonArray(<<ObjLedger>>))}
    \cup { Ok(o) : o \in ErrorObjects }

SignatureOutcomes ==
    {PyRaised}
    \cup { Ok(JsonObject([EmptyObject EXCEPT !.signature = Some(JString(t))])) :
             t \in SignatureTexts }

\* the domain values whose serialization is decoded again
DomainValues ==
    [type : {"HWIExtendedPubKey"}, value : [xpub : ValidXpubs]]
    \cup [type : {"HWISignature"}, value : Signatures]
    \cup [type : {"HWIAddress"}, value : [address : ValidAddresses]]
    \cup [type : {"HWIDescriptor"}, value : HWIDescriptors]

\* deserialize_obj! with a fault: the value is left out of the message
deserialize_obj_NoValue(text, target) ==
    LET value == serde_json_from_str(text) IN
    IF value.tag = "Err" THEN value
    ELSE LET r == from_value(value.val, target) IN
         IF r.tag = "Ok" THEN r
         ELSE Err(Hwi(<<"error ", r.val>>, None))

\* the macro deserialize_obj!: from_str, whose failure leaves the enclosing
\* function with Error::Json, then from_value into the target type, whose
\* failure becomes Error::Hwi with the diagnostic and the value
deserialize_obj(text, target) ==
    LET value == serde_json_from_str(text) IN
    IF value.tag = "Err" THEN value
    ELSE LET r == from_value(value.val, target) IN
         IF r.tag = "Ok" THEN r
         ELSE Err(Hwi(<<"error ", r.val, " while deserializing ",
                        DisplayValue(value.val)>>, None))

\* the first panic among the conversions, in order, is the outcome of
\* collect(); without one the outcome is the vector of results
Collect(results) ==
    IF \E i \in 1..Len(results) : results[i].tag = "Panic"
    THEN results[CHOOSE i \in 1..Len(results) :
                    /\ results[i].tag = "Panic"
                    /\ \A j \in 1..(i - 1) : results[j].tag # "Panic"]
    ELSE Ok(results)

\* HWIClient::enumerate, from the outcome of the interpreter call on
HWIClient_enumerate(outcome) ==
    IF outcome.tag = "Err" THEN outcome
    ELSE LET devices_internal ==
                 deserialize_obj(outcome.val, "Vec<HWIDeviceInternal>")
         IN IF devices_internal.tag = "Err" THEN devices_internal
            ELSE Collect([i \in 1..Len(devices_internal.val) |->
                             HWIDevice_try_from(devices_internal.val[i])])

\* the tail shared by the lifecycle operations:
\*     let status: HWIStatus = deserialize_obj!(&output.to_string())?;
\*     status.into()
StatusResult(outcome) ==
    IF outcome.tag = "Err" THEN outcome
    ELSE LET status == deserialize_obj(outcome.val, "HWIStatus")
         IN IF status.tag = "Err" THEN status ELSE HWIStatus_into(status.val)

InitDecode ==
    /\ threads = <<>>
    /\ gil = None
    /\ client = None
    /\ pc = "call"
    /\ sent = <<>>
    /\ executed = FALSE
    /\ ret = None
    /\ \/ op \in [name : {"ErrorCode_try_from"}, code : I8]
       \/ op \in [name : {"HWIDevice_try_from"}, h : DeviceInternals]
       \/ op \in [name : {"HWIStatus_into"}, status : [success : BOOLEAN]]
       \/ op \in [name : {"enumerate"}, outcome : EnumerateOutcomes]
       \/ op \in [name : {"toggle_passphrase", "wipe_device"}, outcome : StatusOutcomes]
       \/ op \in [name : {"setup_device", "backup_device"}, label : Labels,
                  passphrase : Passphrases, outcome : StatusOutcomes]
       \/ op \in [name : {"restore_device"}, label : Labels,
                  word_count : WordCounts, outcome : StatusOutcomes]
       \/ op \in [name : {"get_xpub"}, path : DerivationPaths, expert : BOOLEAN,
                  outcome : XpubOutcomes]
       \/ \E d \in DomainValues :
              op = [name |-> "round_trip", type |-> d.type, value |-> d.value]
       \/ op \in [name : {"display_address_with_desc"},
                  descriptor : DescriptorStrings, outcome : AddressOutcomes]
       \/ op \in [name : {"get_keypool"}, keypool : BOOLEAN, internal : BOOLEAN,
                  addr_type : {"Legacy", "Wit"}, addr_all : BOOLEAN,
                  account : {None} \cup {Some(a) : a \in 0..MaxAccount},
                  path : {None} \cup {Some(p) : p \in DerivationPaths},
                  start : 0..MaxIndex, end : 0..MaxIndex, outcome : KeypoolOutcomes]
       \/ op \in [name : {"sign_message"}, message : {"I love BDK wallet"},
                  path : DerivationPaths, outcome : SignatureOutcomes]

\* the frame of an action of SpecDecode that calls no backend
Returns(r) ==
    /\ pc' = "done"
    /\ ret' = r
    /\ UNCHANGED <<client, op, sent, executed, threads, gil>>

\* the frame of an action that calls the function func of hwilib.commands
PyCall(func_args, r) ==
    /\ pc' = "done"
    /\ ret' = r
    /\ sent' = func_args
    /\ executed' = TRUE
    /\ UNCHANGED <<client, op, threads, gil>>

TryFromI8 ==
    /\ pc = "call" /\ op.name = "ErrorCode_try_from"
    /\ Returns(ErrorCode_try_from(op.code))

TryFromDeviceInternal ==
    /\ pc = "call" /\ op.name = "HWIDevice_try_from"
    /\ Returns(HWIDevice_try_from(op.h))

StatusInto ==
    /\ pc = "call" /\ op.name = "HWIStatus_into"
    /\ Returns(HWIStatus_into(op.status))

HWIClient_enumerate_call ==
    /\ pc = "call" /\ op.name = "enumerate"
    /\ PyCall(<<"enumerate">>, HWIClient_enumerate(op.outcome))

HWIClient_toggle_passphrase ==
    /\ pc = "call" /\ op.name = "toggle_passphrase"
    /\ PyCall(<<"toggle_passphrase", "hw_client">>, StatusResult(op.outcome))

HWIClient_setup_device ==
    /\ pc = "call" /\ op.name = "setup_device"
    /\ PyCall(<<"setup_device", "hw_client", UnwrapOr(op.label, ""),
                UnwrapOr(op.passphrase, "")>>, StatusResult(op.outcome))

HWIClient_restore_device ==
    /\ pc = "call" /\ op.name = "restore_device"
    /\ PyCall(<<"restore_device", "hw_client", UnwrapOr(op.label, ""),
                UnwrapOr(op.word_count, W24)>>, StatusResult(op.outcome))

HWIClient_backup_device ==
    /\ pc = "call" /\ op.name = "backup_device"
    /\ PyCall(<<"backup_device", "hw_client", UnwrapOr(op.label, ""),
                UnwrapOr(op.passphrase, "")>>, StatusResult(op.outcome))

HWIClient_wipe_device ==
    /\ pc = "call" /\ op.name = "wipe_device"
    /\ PyCall(<<"wipe_device", "hw_client">>, StatusResult(op.outcome))

\* the tail of HWIClient::get_xpub: deserialize_obj!(&output.to_string())
XpubResult(outcome) ==
    IF outcome.tag = "Err" THEN outcome
    ELSE deserialize_obj(outcome.val, "HWIExtendedPubKey")

HWIClient_get_xpub ==
    /\ pc = "call" /\ op.name = "get_xpub"
    /\ PyCall(<<"getxpub", "hw_client", op.path, op.expert>>, XpubResult(op.outcome))

\* pub fn sign_message of the facade
HWIClient_sign_message ==
    /\ pc = "call" /\ op.name = "sign_message"
    /\ PyCall(<<"signmessage", "hw_client", op.message, op.path>>,
              IF op.outcome.tag = "Err" THEN op.outcome
              ELSE deserialize_obj(op.outcome.val, "HWISignature"))

\* p_str of get_keypool with a fault: the suffix is appended to an absent
\* path as well
p_str_AlwaysSuffixed(path) == Some(UnwrapOr(path, "") \o "/*")

\* let mut p_str = py.None(); if let Some(p) = path { p_str = format!("{}/*", p) }
p_str(path) == IF path = None THEN None ELSE Some(path[1] \o "/*")

\* pub fn get_keypool of the facade
HWIClient_get_keypool ==
    /\ pc = "call" /\ op.name = "get_keypool"
    /\ PyCall(<<"getkeypool", "hw_client", p_str(op.path), op.start, op.end,
                op.internal, op.keypool, UnwrapOr(op.account, 0), op.addr_type,
                op.addr_all>>,
              IF op.outcome.tag = "Err" THEN op.outcome
              ELSE deserialize_obj(op.outcome.val, "Vec<HWIKeyPoolElement>"))

\* str::split(pattern): the pieces of the text between the occurrences of the
\* pattern character; a text without the pattern is one piece
RECURSIVE str_split(_, _)
str_split(chars, pattern) ==
    IF chars = <<>> THEN << <<>> >>
    ELSE LET rest == str_split(Tail(chars), pattern) IN
         IF Head(chars) = pattern THEN << <<>> >> \o rest
         ELSE << <<Head(chars)>> \o Head(rest) >> \o Tail(rest)

\* the stripping with a fault: the text is cut at the last '#'
strip_checksum_AtLastHash(descriptor) ==
    LET pieces == str_split(descriptor, "#") IN
    IF Len(pieces) = 1 THEN descriptor
    ELSE SubSeq(descriptor, 1, Len(descriptor) - Len(pieces[Len(pieces)]) - 1)

\* descriptor.to_string().split('#').collect::<Vec<_>>()[0].to_string()
strip_checksum(descriptor) == str_split(descriptor, "#")[1]

\* pub fn display_address_with_desc of the facade
HWIClient_display_address_with_desc ==
    /\ pc = "call" /\ op.name = "display_address_with_desc"
    /\ PyCall(<<"displayaddress", "hw_client", None, strip_checksum(op.descriptor)>>,
              IF op.outcome.tag = "Err" THEN op.outcome
              ELSE deserialize_obj(op.outcome.val, "HWIAddress"))

\* a domain value is serialized with serde_json::to_string and the text
\* decoded with serde_json::from_str as the same type
RoundTrip ==
    /\ pc = "call" /\ op.name = "round_trip"
    /\ Returns(from_str(to_string(op.value, op.type), op.type))

NextDecode ==
    \/ TryFromI8
    \/ TryFromDeviceInternal
    \/ StatusInto
    \/ HWIClient_enumerate_call
    \/ HWIClient_toggle_passphrase
    \/ HWIClient_setup_device
    \/ HWIClient_restore_device
    \/ HWIClient_backup_device
    \/ HWIClient_wipe_device
    \/ HWIClient_get_xpub
    \/ HWIClient_sign_message
    \/ HWIClient_get_keypool
    \/ HWIClient_display_address_with_desc
    \/ RoundTrip

SpecDecode == InitDecode /\ [][NextDecode]_vars

----------------------------------------------------------------------------
(* Inputs of Spec: the caller's arguments and the executor's answers.      *)

\* text a caller supplies: a message, a descriptor, a label, a location.
\* The tool's own words are text a caller may supply too.
Messages == {"I love BDK wallet", "a b", "enumerate", "--version", "--expert"}
Descriptors == {"wpkh([00000001/84'/1'/0']tpub/0/*)", "enumerate"}
LabelTexts == {"", "My Label", "enumerate"}
PassphraseTexts == {"", "pass phrase"}
Locations == {"/lib/udev/rules.d/", "enumerate"}
Sources == {"./udev"}
Passwords == {None, Some("pass word"), Some("--version")}

\* the path arguments of the subprocess backend
Paths == DerivationPaths
\* a PSBT in base64, as Psbt::to_string writes it
Psbts == {"cHNidP8BAHEC", "cHNidP8BAFUC"}

AddressTypes == {"Legacy", "Sh_Wit", "Wit", "Tap"}
Chains == {"Bitcoin", "Testnet", "Regtest", "Signet"}
Accounts == 0..MaxAccount
Indexes == 0..MaxIndex
WordCountValues == {W12, W18, W24}
LogLevels == {"DEBUG", "INFO", "WARNING", "ERROR", "CRITICAL"}
Versions == {"2.1.1", "--version"}

ObjTrezor ==
    [EmptyObject EXCEPT
        !.type = Some("trezor"), !.model = Some("trezor_t"),
        !.path = Some("udp:127.0.0.1:21324"), !.needs_pin_sent = Some(FALSE),
        !.needs_passphrase_sent = Some(FALSE),
        !.fingerprint = Some(Chars("d", "e", "a", "d", "b", "e", "e", "f"))]

\* the devices a caller has from an earlier enumerate
Devices ==
    { HWIDevice_try_from(HWIDeviceInternal_deserialize(o).val).val :
        o \in {ObjLedger, ObjTrezor} }

\* the records of the enumerate answer find_device reads
FindObjects ==
    { ObjLedger, ObjTrezor, ObjBitBox, ObjUnknown,
      [EmptyObject EXCEPT !.error = Some("x"), !.code = Some(-7)] }

ExecutorFailed == Err(Hwi(<<"stderr of the tool">>, None))

\* what the executor returns to an operation
ExecutorOutcomes ==
    { ExecutorFailed, Ok(NotJsonText("garbage")),
      Ok(JsonObject([EmptyObject EXCEPT !.success = Some(TRUE)])) }

\* what the executor returns to the enumerate of find_device
FindOutcomes ==
    { ExecutorFailed, Ok(NotJsonText("garbage")),
      Ok(JsonObject([EmptyObject EXCEPT !.error = Some("x"), !.code = Some(-7)])) }
    \cup { Ok(JsonArray(items)) : items \in SeqsUpTo(FindObjects, MaxDevices) }

\* whether the tool can open the device a client is asked for: a fact of the
\* environment, which get_client of the subprocess backend does not consult
DeviceOpens == BOOLEAN

DeviceTypeFilters == {None, Some(DeviceType("Ledger")), Some(DeviceType("Trezor"))}
FingerprintFilters == {None, Some("00000001"), Some("deadbeef")}

----------------------------------------------------------------------------
(* implementations/binary_implementation.rs *)

Contains(args, token) == \E i \in 1..Len(args) : args[i] = token

\* the outcome of run_hwi_command: whether the executor was invoked, with
\* which token vector, and the result returned
NotExecuted(r) == [executed |-> FALSE, sent |-> <<>>, ret |-> r]
Executed(tokens, r) == [executed |-> TRUE, sent |-> tokens, ret |-> r]

\* run_hwi_command with a fault: only enumerate is exempt from the fingerprint
run_hwi_command_VersionNotExempt(device, expert, chain, args, outcome) ==
    LET per_device == ~Contains(args, "enumerate") IN
    IF per_device /\ device = None
    THEN NotExecuted(Err(Hwi(<<"Device fingerprint not set">>, None)))
    ELSE Executed(
            (IF per_device
             THEN <<"--fingerprint", Fingerprint_to_string(device[1].fingerprint)>>
             ELSE <<>>)
            \o (IF expert THEN <<"--expert">> ELSE <<>>)
            \o (IF chain # None THEN <<"--chain", HWIChain_to_string(chain[1])>> ELSE <<>>)
            \o args,
            outcome)

\* run_hwi_command with a fault: the arguments come before the global flags
run_hwi_command_ArgsFirst(device, expert, chain, args, outcome) ==
    LET per_device == ~Contains(args, "enumerate") /\ ~Contains(args, "--version") IN
    IF per_device /\ device = None
    THEN NotExecuted(Err(Hwi(<<"Device fingerprint not set">>, None)))
    ELSE Executed(
            args
            \o (IF per_device
                THEN <<"--fingerprint", Fingerprint_to_string(device[1].fingerprint)>>
                ELSE <<>>)
            \o (IF expert THEN <<"--expert">> ELSE <<>>)
            \o (IF chain # None THEN <<"--chain", HWIChain_to_string(chain[1])>> ELSE <<>>),
            outcome)

\* run_hwi_command with a fault: the chain flag comes after the arguments
run_hwi_command_ChainLast(device, expert, chain, args, outcome) ==
    LET per_device == ~Contains(args, "enumerate") /\ ~Contains(args, "--version") IN
    IF per_device /\ device = None
    THEN NotExecuted(Err(Hwi(<<"Device fingerprint not set">>, None)))
    ELSE Executed(
            (IF per_device
             THEN <<"--fingerprint", Fingerprint_to_string(device[1].fingerprint)>>
             ELSE <<>>)
            \o (IF expert THEN <<"--expert">> ELSE <<>>)
            \o args
            \o (IF chain # None THEN <<"--chain", HWIChain_to_string(chain[1])>> ELSE <<>>),
            outcome)

\* run_hwi_command with a fault: the expert flag is never pushed
run_hwi_command_NoExpert(device, expert, chain, args, outcome) ==
    LET per_device == ~Contains(args, "enumerate") /\ ~Contains(args, "--version") IN
    IF per_device /\ device = None
    THEN NotExecuted(Err(Hwi(<<"Device fingerprint not set">>, None)))
    ELSE Executed(
            (IF per_device
             THEN <<"--fingerprint", Fingerprint_to_string(device[1].fingerprint)>>
             ELSE <<>>)
            \o (IF chain # None THEN <<"--chain", HWIChain_to_string(chain[1])>> ELSE <<>>)
            \o args,
            outcome)

\* run_hwi_command with a fault: an error of the executor becomes an empty
\* answer
run_hwi_command_ErrorSwallowed(device, expert, chain, args, outcome) ==
    LET per_device == ~Contains(args, "enumerate") /\ ~Contains(args, "--version") IN
    IF per_device /\ device = None
    THEN NotExecuted(Err(Hwi(<<"Device fingerprint not set">>, None)))
    ELSE Executed(
            (IF per_device
             THEN <<"--fingerprint", Fingerprint_to_string(device[1].fingerprint)>>
             ELSE <<>>)
            \o (IF expert THEN <<"--expert">> ELSE <<>>)
            \o (IF chain # None THEN <<"--chain", HWIChain_to_string(chain[1])>> ELSE <<>>)
            \o args,
            IF outcome.tag = "Err" THEN Ok(NotJsonText("")) ELSE outcome)

\* BinaryHWIImplementation::run_hwi_command(device, expert, chain, args);
\* outcome is what T::execute_command returns when it is invoked.  The
\* fingerprint is required, and sent, unless args contains the token
\* "enumerate" or "--version".
run_hwi_command(device, expert, chain, args, outcome) ==
    LET per_device == ~Contains(args, "enumerate") /\ ~Contains(args, "--version") IN
    IF per_device /\ device = None
    THEN NotExecuted(Err(Hwi(<<"Device fingerprint not set">>, None)))
    ELSE Executed(
            (IF per_device
             THEN <<"--fingerprint", Fingerprint_to_string(device[1].fingerprint)>>
             ELSE <<>>)
            \o (IF expert THEN <<"--expert">> ELSE <<>>)
            \o (IF chain # None THEN <<"--chain", HWIChain_to_string(chain[1])>> ELSE <<>>)
            \o args,
            outcome)

\* commands.rs, HWICommand::add_keypool: the arguments of the command after
\* the call
add_keypool(command, k) == IF ~k THEN Append(command, "--nokeypool") ELSE command

\* the argument vectors the operations build
enumerate_args == <<"enumerate">>
find_device_args(password) ==
    <<"enumerate">> \o (IF password # None THEN <<"--password", password[1]>> ELSE <<>>)
get_master_xpub_args(addrtype, account) ==
    <<"getmasterxpub", "--addr-type", HWIAddressType_to_string(addrtype),
      "--account", NatToString(account)>>
sign_tx_args(psbt) == <<"signtx", psbt>>
get_xpub_args(path) == <<"getxpub", path>>
sign_message_args(message, path) == <<"signmessage", message, path>>
\* the arguments of get_keypool with a fault: end is pushed before start
get_keypool_args_EndFirst(keypool, internal, addr_type, addr_all, account, path, start, end) ==
    <<"getkeypool">>
    \o (IF keypool THEN <<"--keypool">> ELSE <<>>)
    \o (IF internal THEN <<"--internal">> ELSE <<>>)
    \o <<"--addr-type", HWIAddressType_to_string(addr_type)>>
    \o (IF addr_all THEN <<"--addr-all">> ELSE <<>>)
    \o <<"--account", NatToString(account)>>
    \o (IF path # None THEN <<"--path", path[1]>> ELSE <<>>)
    \o <<NatToString(end), NatToString(start)>>

get_keypool_args(keypool, internal, addr_type, addr_all, account, path, start, end) ==
    <<"getkeypool">>
    \o (IF keypool THEN <<"--keypool">> ELSE <<>>)
    \o (IF internal THEN <<"--internal">> ELSE <<>>)
    \o <<"--addr-type", HWIAddressType_to_string(addr_type)>>
    \o (IF addr_all THEN <<"--addr-all">> ELSE <<>>)
    \o <<"--account", NatToString(account)>>
    \o (IF path # None THEN <<"--path", path[1]>> ELSE <<>>)
    \o <<NatToString(start), NatToString(end)>>
get_descriptors_args(account) == <<"getdescriptors", "--account", NatToString(account)>>
display_address_with_desc_args(descriptor) == <<"displayaddress", "--desc", descriptor>>
display_address_with_path_args(path, address_type) ==
    <<"displayaddress", "--path", path, "--addr-type",
      HWIAddressType_to_string(address_type)>>
install_udev_rules_args(location) == <<"installudevrules", "--location", location>>
toggle_passphrase_args == <<"togglepassphrase">>
setup_device_args(label, passphrase) ==
    <<"setup", "--label", label, "--backup_passphrase", passphrase>>
restore_device_args(label, word_count) ==
    <<"restore", "--word_count", NatToString(word_count), "--label", label>>
backup_device_args(label, backup_passphrase) ==
    <<"backup", "--label", label, "--backup_passphrase", backup_passphrase>>
wipe_device_args == <<"wipe">>
get_version_args == <<"--version">>

\* the closure of find_device's find: both filters, an absent one matches
Matches(d, device_type, fingerprint) ==
    /\ (device_type = None \/ d.device_type = device_type[1])
    /\ (fingerprint = None \/ Fingerprint_to_string(d.fingerprint) = fingerprint[1])

\* Iterator::find: the first element that matches
Find(devices, device_type, fingerprint) ==
    IF \E i \in 1..Len(devices) : Matches(devices[i], device_type, fingerprint)
    THEN Some(devices[CHOOSE i \in 1..Len(devices) :
                 /\ Matches(devices[i], device_type, fingerprint)
                 /\ \A j \in 1..(i - 1) : ~Matches(devices[j], device_type, fingerprint)])
    ELSE None

\* the value of a BinaryHWIImplementation
Client(device, expert, chain) == [device |-> device, expert |-> expert, chain |-> chain]

\* find_device with a fault: when no device matches it returns the client it
\* built before the enumeration, whose device is not set
find_device_result_Unbound(output, device_type, fingerprint, expert, chain) ==
    LET devices == deserialize_obj(output, "Vec<HWIDevice>") IN
    IF devices.tag = "Err" THEN devices
    ELSE Ok(Client(Find(devices.val, device_type, fingerprint), expert, chain))

\* find_device after its run_hwi_command returned Ok(output)
find_device_result(output, device_type, fingerprint, expert, chain) ==
    LET devices == deserialize_obj(output, "Vec<HWIDevice>") IN
    IF devices.tag = "Err" THEN devices
    ELSE LET device == Find(devices.val, device_type, fingerprint) IN
         IF device = None THEN Err(Hwi(<<"No matching device found">>, None))
         ELSE Ok(Client(device, expert, chain))

Init ==
    /\ threads = <<>>
    /\ gil = None
    /\ client = None
    /\ pc = "idle"
    /\ op = [name |-> "none"]
    /\ sent = <<>>
    /\ executed = FALSE
    /\ ret = None

\* an operation that goes through run_hwi_command and returns its result
Run(call, r) ==
    /\ pc' = "returned"
    /\ op' = call
    /\ sent' = r.sent
    /\ executed' = r.executed
    /\ ret' = r.ret
    /\ UNCHANGED <<client, threads, gil>>

\* self of a per-device operation
self == client[1]

enumerate ==
    /\ pc = "idle"
    /\ \E outcome \in ExecutorOutcomes :
          Run([name |-> "enumerate", outcome |-> outcome],
              run_hwi_command(None, FALSE, None, enumerate_args, outcome))

get_client ==
    /\ pc = "idle"
    /\ \E device \in Devices, expert \in BOOLEAN, chain \in Chains,
          opens \in DeviceOpens :
          /\ pc' = "returned"
          /\ op' = [name |-> "get_client", device |-> device, expert |-> expert,
                    chain |-> chain, opens |-> opens]
          /\ client' = Some(Client(Some(device), expert, chain))
          /\ ret' = Ok(Client(Some(device), expert, chain))
          /\ UNCHANGED <<sent, executed, threads, gil>>

find_device ==
    /\ pc = "idle"
    /\ \E password \in Passwords, device_type \in DeviceTypeFilters,
          fingerprint \in FingerprintFilters, expert \in BOOLEAN, chain \in Chains,
          outcome \in FindOutcomes :
          LET r == run_hwi_command(None, expert, Some(chain),
                                   find_device_args(password), outcome)
              result == IF r.ret.tag = "Err" THEN r.ret
                        ELSE find_device_result(r.ret.val, device_type, fingerprint,
                                                expert, chain)
          IN /\ pc' = "returned"
             /\ op' = [name |-> "find_device", password |-> password,
                       device_type |-> device_type, fingerprint |-> fingerprint,
                       expert |-> expert, chain |-> chain, outcome |-> outcome]
             /\ sent' = r.sent
             /\ executed' = r.executed
             /\ ret' = result
             /\ client' = IF result.tag = "Ok" THEN Some(result.val) ELSE client
             /\ UNCHANGED <<threads, gil>>

get_master_xpub ==
    /\ pc = "idle" /\ client # None
    /\ \E addrtype \in AddressTypes, account \in Accounts, outcome \in ExecutorOutcomes :
          Run([name |-> "get_master_xpub", addrtype |-> addrtype, account |-> account,
               outcome |-> outcome],
              run_hwi_command(self.device, self.expert, Some(self.chain),
                              get_master_xpub_args(addrtype, account), outcome))

sign_tx ==
    /\ pc = "idle" /\ client # None
    /\ \E psbt \in Psbts, outcome \in ExecutorOutcomes :
          Run([name |-> "sign_tx", psbt |-> psbt, outcome |-> outcome],
              run_hwi_command(self.device, self.expert, Some(self.chain),
                              sign_tx_args(psbt), outcome))

get_xpub ==
    /\ pc = "idle" /\ client # None
    /\ \E path \in Paths, expert \in BOOLEAN, outcome \in ExecutorOutcomes :
          Run([name |-> "get_xpub", path |-> path, expert |-> expert,
               outcome |-> outcome],
              run_hwi_command(self.device, expert, Some(self.chain),
                              get_xpub_args(path), outcome))

sign_message ==
    /\ pc = "idle" /\ client # None
    /\ \E message \in Messages, path \in Paths, outcome \in ExecutorOutcomes :
          Run([name |-> "sign_message", message |-> message, path |-> path,
               outcome |-> outcome],
              run_hwi_command(self.device, self.expert, Some(self.chain),
                              sign_message_args(message, path), outcome))

get_keypool ==
    /\ pc = "idle" /\ client # None
    /\ \E keypool \in BOOLEAN, internal \in BOOLEAN, addr_type \in AddressTypes,
          addr_all \in BOOLEAN, account \in Accounts,
          path \in {None} \cup {Some(p) : p \in Paths},
          start \in Indexes, end \in Indexes, outcome \in ExecutorOutcomes :
          Run([name |-> "get_keypool", keypool |-> keypool, internal |-> internal,
               addr_type |-> addr_type, addr_all |-> addr_all, account |-> account,
               path |-> path, start |-> start, end |-> end, outcome |-> outcome],
              run_hwi_command(self.device, self.expert, Some(self.chain),
                              get_keypool_args(keypool, internal, addr_type, addr_all,
                                               account, path, start, end),
                              outcome))

get_descriptors ==
    /\ pc = "idle" /\ client # None
    /\ \E account \in Accounts, outcome \in ExecutorOutcomes :
          Run([name |-> "get_descriptors", account |-> account, outcome |-> outcome],
              run_hwi_command(self.device, self.expert, Some(self.chain),
                              get_descriptors_args(account), outcome))

display_address_with_desc ==
    /\ pc = "idle" /\ client # None
    /\ \E descriptor \in Descriptors, outcome \in ExecutorOutcomes :
          Run([name |-> "display_address_with_desc", descriptor |-> descriptor,
               outcome |-> outcome],
              run_hwi_command(self.device, self.expert, Some(self.chain),
                              display_address_with_desc_args(descriptor), outcome))

display_address_with_path ==
    /\ pc = "idle" /\ client # None
    /\ \E path \in Paths, address_type \in AddressTypes, outcome \in ExecutorOutcomes :
          Run([name |-> "display_address_with_path", path |-> path,
               address_type |-> address_type, outcome |-> outcome],
              run_hwi_command(self.device, self.expert, Some(self.chain),
                              display_address_with_path_args(path, address_type),
                              outcome))

install_udev_rules ==
    /\ pc = "idle"
    /\ \E source \in Sources, location \in Locations, outcome \in ExecutorOutcomes :
          Run([name |-> "install_udev_rules", source |-> source,
               location |-> location, outcome |-> outcome],
              run_hwi_command(None, FALSE, None, install_udev_rules_args(location),
                              outcome))

\* set_log_level with a fault: the level is sent to the tool as a command
set_log_level_result_Sent(level) ==
    run_hwi_command(None, FALSE, None, <<"--version", "--debug", level>>,
                    Ok(NotJsonText("")))

\* fn set_log_level(_: LogLevel): Err(Error::NotImplemented)
set_log_level_result(level) == NotExecuted(Err(ErrorNotImplemented))

\* fn install_hwilib(_: String): Err(Error::NotImplemented)
install_hwilib_result(version) == NotExecuted(Err(ErrorNotImplemented))

set_log_level ==
    /\ pc = "idle"
    /\ \E level \in LogLevels :
          Run([name |-> "set_log_level", level |-> level], set_log_level_result(level))

toggle_passphrase ==
    /\ pc = "idle" /\ client # None
    /\ \E outcome \in ExecutorOutcomes :
          Run([name |-> "toggle_passphrase", outcome |-> outcome],
              run_hwi_command(self.device, self.expert, Some(self.chain),
                              toggle_passphrase_args, outcome))

setup_device ==
    /\ pc = "idle" /\ client # None
    /\ \E label \in LabelTexts, passphrase \in PassphraseTexts,
          outcome \in ExecutorOutcomes :
          Run([name |-> "setup_device", label |-> label, passphrase |-> passphrase,
               outcome |-> outcome],
              run_hwi_command(self.device, self.expert, Some(self.chain),
                              setup_device_args(label, passphrase), outcome))

restore_device ==
    /\ pc = "idle" /\ client # None
    /\ \E label \in LabelTexts, word_count \in WordCountValues,
          outcome \in ExecutorOutcomes :
          Run([name |-> "restore_device", label |-> label, word_count |-> word_count,
               outcome |-> outcome],
              run_hwi_command(self.device, self.expert, Some(self.chain),
                              restore_device_args(label, word_count), outcome))

backup_device ==
    /\ pc = "idle" /\ client # None
    /\ \E label \in LabelTexts, backup_passphrase \in PassphraseTexts,
          outcome \in ExecutorOutcomes :
          Run([name |-> "backup_device", label |-> label,
               passphrase |-> backup_passphrase, outcome |-> outcome],
              run_hwi_command(self.device, self.expert, Some(self.chain),
                              backup_device_args(label, backup_passphrase), outcome))

wipe_device ==
    /\ pc = "idle" /\ client # None
    /\ \E outcome \in ExecutorOutcomes :
          Run([name |-> "wipe_device", outcome |-> outcome],
              run_hwi_command(self.device, self.expert, Some(self.chain),
                              wipe_device_args, outcome))

get_version ==
    /\ pc = "idle"
    /\ \E outcome \in ExecutorOutcomes :
          Run([name |-> "get_version", outcome |-> outcome],
              run_hwi_command(None, FALSE, None, get_version_args, outcome))

install_hwilib ==
    /\ pc = "idle"
    /\ \E version \in Versions :
          Run([name |-> "install_hwilib", version |-> version],
              install_hwilib_result(version))

\* the caller takes the result; the next operation starts after it
Return ==
    /\ pc = "returned"
    /\ pc' = "idle"
    /\ op' = [name |-> "none"]
    /\ sent' = <<>>
    /\ executed' = FALSE
    /\ ret' = None
    /\ UNCHANGED <<client, threads, gil>>

Next ==
    \/ enumerate
    \/ get_client
    \/ find_device
    \/ get_master_xpub
    \/ sign_tx
    \/ get_xpub
    \/ sign_message
    \/ get_keypool
    \/ get_descriptors
    \/ display_address_with_desc
    \/ display_address_with_path
    \/ install_udev_rules
    \/ set_log_level
    \/ toggle_passphrase
    \/ setup_device
    \/ restore_device
    \/ backup_device
    \/ wipe_device
    \/ get_version
    \/ install_hwilib
    \/ Return

Spec == Init /\ [][Next]_vars

----------------------------------------------------------------------------
(* Properties of the decoders, checked under SpecDecode.                   *)

\* the numeric codes the tool documents
RecognizedCodes == (-18)..(-1)

Done(name) == pc = "done" /\ op.name = name

\* an enumerate call whose answer is a JSON array that passes the first,
\* strict stage of the decode (every code fits i8, every fingerprint parses)
EnumeratedArray ==
    /\ Done("enumerate")
    /\ op.outcome.tag = "Ok"
    /\ op.outcome.val.kind = "array"
    /\ Vec_HWIDeviceInternal_deserialize(op.outcome.val).tag = "Ok"

Records == op.outcome.val.items

AllFieldsPresent(o) ==
    /\ o.type # None /\ o.model # None /\ o.path # None
    /\ o.needs_pin_sent # None /\ o.needs_passphrase_sent # None
    /\ o.fingerprint # None

\* C2: the tolerant enumerate decode returns one entry per record, in order:
\* a well-formed record without an error string gives Ok(Device), a record
\* with an error string gives Err(Hwi(error, code)) with a recognized code
\* mapped to its symbolic ErrorCode, whatever the other records are.
C2_OneEntryPerRecordIndependently ==
    EnumeratedArray =>
        \A i \in 1..Len(Records) :
            LET o == Records[i] IN
            /\ (o.error = None /\ AllFieldsPresent(o)) =>
                   /\ ret.tag = "Ok"
                   /\ Len(ret.val) = Len(Records)
                   /\ ret.val[i].tag = "Ok"
                   /\ ret.val[i].val.model = o.model[1]
                   /\ ret.val[i].val.path = o.path[1]
            /\ o.error # None =>
                   /\ ret.tag = "Ok"
                   /\ Len(ret.val) = Len(Records)
                   /\ ret.val[i].tag = "Err"
                   /\ ret.val[i].val.kind = "Hwi"
                   /\ ret.val[i].val.msg = <<o.error[1]>>
                   /\ (o.code # None /\ o.code[1] \in RecognizedCodes) =>
                          /\ ret.val[i].val.code # None
                          /\ ErrorCodeRepr[ret.val[i].val.code[1]] = 0 - o.code[1]

\* C3: a record without an error string and with a field absent gives an Err
\* entry for that record, and the enumerate call still returns its vector.
C3_AbsentFieldIsAnErrEntry ==
    EnumeratedArray =>
        \A i \in 1..Len(Records) :
            (Records[i].error = None /\ ~AllFieldsPresent(Records[i])) =>
                /\ ret.tag = "Ok"
                /\ Len(ret.val) = Len(Records)
                /\ ret.val[i].tag = "Err"

\* a conversion of a record that carries an error string and a code that is
\* none of the recognized ones
ConvertedUnrecognizedCode ==
    /\ Done("HWIDevice_try_from")
    /\ op.h.error # None
    /\ op.h.code # None
    /\ op.h.code[1] \notin RecognizedCodes

\* C4 as stated: an unrecognized code makes the conversion fail with a decode
\* error, not with the tool-reported error stripped of its code.
C4_UnrecognizedCodeIsADecodeError ==
    ConvertedUnrecognizedCode =>
        /\ ret.tag = "Err"
        /\ ret.val # Hwi(<<op.h.error[1]>>, None)

\* C4, amended: an unrecognized code is dropped; the conversion returns the
\* tool-reported error string with no symbolic code.
C4_UnrecognizedCodeIsDropped ==
    ConvertedUnrecognizedCode => ret = Err(Hwi(<<op.h.error[1]>>, None))

C4_Witness ==
    /\ ConvertedUnrecognizedCode
    /\ op.h.code = Some(-19)
    /\ ret = Err(Hwi(<<"x">>, None))

\* C5: ErrorCode::try_from is a bijection between -18..-1 and the 18 codes,
\* with as_i8 its inverse; every other i8 gives Err, no panic, no enum value.
C5_ErrorCodeBijection ==
    /\ Cardinality(ErrorCode) = Cardinality(RecognizedCodes)
    /\ \A e \in ErrorCode : as_i8(e) \in RecognizedCodes
    /\ Done("ErrorCode_try_from") =>
           IF op.code \in RecognizedCodes
           THEN /\ ret.tag = "Ok"
                /\ ret.val \in ErrorCode
                /\ as_i8(ret.val) = op.code
           ELSE /\ ret.tag = "Err"
                /\ ret.val.kind = "Hwi"

C5_Witness ==
    /\ Done("ErrorCode_try_from")
    /\ op.code = -18
    /\ ret = Ok("DeviceNotInitialized")

LifecycleOps ==
    {"toggle_passphrase", "setup_device", "restore_device", "backup_device",
     "wipe_device"}

\* a lifecycle operation whose answer decodes to a Status
DecodedStatus ==
    /\ pc = "done"
    /\ op.name \in LifecycleOps
    /\ op.outcome.tag = "Ok"
    /\ op.outcome.val.kind = "object"
    /\ op.outcome.val.obj.success # None

ExpectedOfStatus(success) ==
    IF success THEN Ok(Unit)
    ELSE Err(Hwi(<<"request returned with failure">>, None))

\* C6: a Status converts to Ok(()) when success is true and to
\* Err(Hwi("request returned with failure", None)) when it is false, and every
\* lifecycle operation returns this conversion of the Status it decoded.
C6_StatusConversion ==
    /\ Done("HWIStatus_into") => ret = ExpectedOfStatus(op.status.success)
    /\ DecodedStatus => ret = ExpectedOfStatus(op.outcome.val.obj.success[1])

C6_Witness ==
    /\ DecodedStatus
    /\ op.name = "toggle_passphrase"
    /\ op.outcome.val.obj.success = Some(FALSE)
    /\ ret.tag = "Err"

----------------------------------------------------------------------------
(* Properties of the subprocess backend, checked under Spec. *)

\* the operation name has returned to the caller
Returned(name) == pc = "returned" /\ op.name = name

PerDeviceOps ==
    { "get_master_xpub", "sign_tx", "get_xpub", "sign_message", "get_keypool",
      "get_descriptors", "display_address_with_desc", "display_address_with_path",
      "toggle_passphrase", "setup_device", "restore_device", "backup_device",
      "wipe_device" }

\* position i of tokens holds flag, position i + 1 holds value
FlagWithValue(tokens, flag, value) ==
    \E i \in 1..(Len(tokens) - 1) : tokens[i] = flag /\ tokens[i + 1] = value

BoundFingerprint == Fingerprint_to_string(self.device[1].fingerprint)

\* C1: every per-device operation on a bound client, whatever text the caller
\* supplies as message, path, label, passphrase or descriptor, hands the
\* executor a token vector that contains --fingerprint followed by the
\* fingerprint of the bound device.
C1_FingerprintAlwaysSent ==
    (pc = "returned" /\ op.name \in PerDeviceOps)
        => /\ executed
           /\ FlagWithValue(sent, "--fingerprint", BoundFingerprint)

\* C7: install_udev_rules needs no bound device: with any location it hands
\* the executor installudevrules --location <location> and returns the
\* executor's outcome, and never fails for lack of a device fingerprint.
C7_InstallUdevRulesNeedsNoDevice ==
    Returned("install_udev_rules")
        => /\ executed
           /\ sent = <<"installudevrules", "--location", op.location>>
           /\ ret = op.outcome

\* C8: enumerate and get_version never require a bound device: they reach
\* the executor with or without a client, the token vector they hand over has
\* no --fingerprint token, and they return the executor's outcome.
C8_EnumerateAndVersionNeedNoDevice ==
    /\ Returned("enumerate")
          => executed /\ sent = <<"enumerate">> /\ ret = op.outcome
    /\ Returned("get_version")
          => executed /\ sent = <<"--version">> /\ ret = op.outcome
    /\ (Returned("enumerate") \/ Returned("get_version"))
          => ~Contains(sent, "--fingerprint")

C8_Witness ==
    /\ Returned("get_version")
    /\ client = None
    /\ executed
    /\ sent = <<"--version">>
    /\ ret.tag = "Ok"

ReferenceText == "reference text"

\* text is one token of tokens, and tokens is the vector sent for the
\* reference text with that one token replaced
OneOpaqueToken(tokens, text, reference) ==
    /\ Len(tokens) = Len(reference)
    /\ Cardinality({i \in 1..Len(tokens) : tokens[i] = text}) = 1
    /\ \E k \in 1..Len(tokens) :
          /\ tokens[k] = text
          /\ reference[k] = ReferenceText
          /\ \A i \in 1..Len(tokens) : i # k => tokens[i] = reference[i]

\* C9: the message of sign_message and the password of find_device appear in
\* the token vector handed to the executor as exactly one token equal to the
\* supplied text, and every other token (number, content, position) is what
\* it is for any other text.
C9_TextIsOneOpaqueToken ==
    /\ (Returned("sign_message") /\ client # None)
          => /\ executed
             /\ OneOpaqueToken(sent, op.message,
                   run_hwi_command(self.device, self.expert, Some(self.chain),
                       sign_message_args(ReferenceText, op.path), op.outcome).sent)
    /\ (Returned("find_device") /\ op.password # None)
          => /\ executed
             /\ OneOpaqueToken(sent, op.password[1],
                   run_hwi_command(None, op.expert, Some(op.chain),
                       find_device_args(Some(ReferenceText)), op.outcome).sent)

\* the argument vector an operation builds: its subcommand, then its own
\* arguments
OperationArgs ==
    CASE op.name = "enumerate" -> enumerate_args
      [] op.name = "find_device" -> find_device_args(op.password)
      [] op.name = "get_master_xpub" -> get_master_xpub_args(op.addrtype, op.account)
      [] op.name = "sign_tx" -> sign_tx_args(op.psbt)
      [] op.name = "get_xpub" -> get_xpub_args(op.path)
      [] op.name = "sign_message" -> sign_message_args(op.message, op.path)
      [] op.name = "get_keypool" ->
            get_keypool_args(op.keypool, op.internal, op.addr_type, op.addr_all,
                             op.account, op.path, op.start, op.end)
      [] op.name = "get_descriptors" -> get_descriptors_args(op.account)
      [] op.name = "display_address_with_desc" ->
            display_address_with_desc_args(op.descriptor)
      [] op.name = "display_address_with_path" ->
            display_address_with_path_args(op.path, op.address_type)
      [] op.name = "install_udev_rules" -> install_udev_rules_args(op.location)
      [] op.name = "toggle_passphrase" -> toggle_passphrase_args
      [] op.name = "setup_device" -> setup_device_args(op.label, op.passphrase)
      [] op.name = "restore_device" -> restore_device_args(op.label, op.word_count)
      [] op.name = "backup_device" -> backup_device_args(op.label, op.passphrase)
      [] op.name = "wipe_device" -> wipe_device_args
      [] op.name = "get_version" -> get_version_args

\* the expert flag and the chain in effect for the operation
ExpertInEffect ==
    CASE op.name \in {"enumerate", "get_version", "install_udev_rules"} -> FALSE
      [] op.name \in {"find_device", "get_xpub"} -> op.expert
      [] OTHER -> self.expert

ChainInEffect ==
    CASE op.name \in {"enumerate", "get_version", "install_udev_rules"} -> None
      [] op.name = "find_device" -> Some(op.chain)
      [] OTHER -> Some(self.chain)

\* the global flags after an optional --fingerprint pair
ExpertAndChainFlags ==
    (IF ExpertInEffect THEN <<"--expert">> ELSE <<>>)
    \o (IF ChainInEffect # None
        THEN <<"--chain", HWIChain_to_string(ChainInEffect[1])>>
        ELSE <<>>)

\* C10 as stated: for every operation the token vector handed to the executor
\* has the subcommand token first, then the global flags, then the
\* operation's own arguments.
C10_SubcommandFirst ==
    (pc = "returned" /\ executed)
        => /\ Head(sent) = Head(OperationArgs)
           /\ \/ Tail(sent) = ExpertAndChainFlags \o Tail(OperationArgs)
              \/ /\ client # None
                 /\ Tail(sent) = <<"--fingerprint", BoundFingerprint>>
                                  \o ExpertAndChainFlags \o Tail(OperationArgs)

\* C10 as the code has it: for every operation the token vector handed to the
\* executor has the global flags first (--fingerprint and the fingerprint
\* when one is sent, then --expert, then --chain and the chain name), then
\* the subcommand token, then the operation's own arguments.
C10_GlobalFlagsFirst ==
    (pc = "returned" /\ executed)
        => \/ sent = ExpertAndChainFlags \o OperationArgs
           \/ /\ client # None
              /\ sent = <<"--fingerprint", BoundFingerprint>>
                         \o ExpertAndChainFlags \o OperationArgs

C10_Witness ==
    /\ Returned("get_keypool")
    /\ executed
    /\ self.expert
    /\ op.path # None
    /\ sent[1] = "--fingerprint"
    /\ sent[3] = "--expert"
    /\ sent[4] = "--chain"
    /\ sent[6] = "getkeypool"


\* the number of tokens ahead of the operation's argument vector
FlagCount == Len(sent) - Len(OperationArgs)

\* position i holds a global flag or the value of one
GlobalFlagTokenAt(i) ==
    \/ sent[i] \in {"--fingerprint", "--expert", "--chain"}
    \/ i > 1 /\ sent[i - 1] \in {"--fingerprint", "--chain"}

\* C11: in every token vector handed to the executor the operation's own
\* argument tokens are the tail of the vector, and every token ahead of them
\* is a global flag (--fingerprint, --expert, --chain) or the value of one;
\* the --expert and --chain flags in effect are among the tokens ahead.
C11_GlobalFlagsPrecedeOperationArgs ==
    (pc = "returned" /\ executed)
        => /\ FlagCount >= 0
           /\ SubSeq(sent, FlagCount + 1, Len(sent)) = OperationArgs
           /\ \A i \in 1..FlagCount : GlobalFlagTokenAt(i)
           /\ ExpertInEffect => \E i \in 1..FlagCount : sent[i] = "--expert"
           /\ ChainInEffect # None
                 => \E i \in 1..(FlagCount - 1) :
                       /\ sent[i] = "--chain"
                       /\ sent[i + 1] = HWIChain_to_string(ChainInEffect[1])

C11_Witness ==
    /\ Returned("display_address_with_path")
    /\ executed
    /\ self.expert
    /\ FlagCount = 5
    /\ sent[FlagCount + 1] = "displayaddress"
    /\ Len(sent) = 10


KeypoolTokens == {"--keypool", "--nokeypool"}

\* tokens says keypool inclusion by negation: --nokeypool when it is off, no
\* keypool token when it is on
ByNegation(tokens, keypool) ==
    IF keypool
    THEN \A i \in 1..Len(tokens) : tokens[i] \notin KeypoolTokens
    ELSE Contains(tokens, "--nokeypool") /\ ~Contains(tokens, "--keypool")

\* C12: keypool inclusion is on by default and expressed by negation, both in
\* HWICommand::add_keypool and in the token vector get_keypool hands to the
\* executor: keypool = false gives the token --nokeypool, keypool = true
\* gives no keypool token.
C12_KeypoolByNegation ==
    (Returned("get_keypool") /\ executed)
        => /\ ByNegation(add_keypool(<<"getkeypool">>, op.keypool), op.keypool)
           /\ ByNegation(sent, op.keypool)

\* the half of C12 that is about HWICommand::add_keypool alone
C12_AddKeypoolByNegation ==
    (Returned("get_keypool") /\ executed)
        => ByNegation(add_keypool(<<"getkeypool">>, op.keypool), op.keypool)


IsOk(r) == r.tag = "Ok"

\* the devices of an enumeration, as enumerate reports them: the records
\* that convert to a device, in their order; an error-bearing record is no
\* device
EnumeratedDevices(items) ==
    LET entries == [i \in 1..Len(items) |->
                       HWIDevice_try_from(HWIDeviceInternal_deserialize(items[i]).val)]
    IN SelectSeq(entries, IsOk)

DeviceNotFound == Err(Hwi(<<"No matching device found">>, None))

\* C13: find_device returns a client bound to the first enumerated device
\* that matches every provided filter (an absent filter matches any device),
\* and fails with the device-not-found error exactly when no enumerated
\* device matches; other records of the enumeration, non-matching or
\* error-bearing, do not change this.
C13_FirstMatchOrNotFound ==
    (/\ Returned("find_device")
     /\ executed
     /\ op.outcome.tag = "Ok"
     /\ op.outcome.val.kind = "array")
        => LET devices == EnumeratedDevices(op.outcome.val.items)
               device == Find([i \in 1..Len(devices) |-> devices[i].val],
                              op.device_type, op.fingerprint)
           IN /\ device # None
                    => /\ ret = Ok(Client(device, op.expert, op.chain))
                       /\ client = Some(ret.val)
              /\ device = None <=> ret = DeviceNotFound


\* C14: get_client fails whenever the backend cannot open the given device:
\* no bound client is returned for a device that cannot be opened.
C14_GetClientFailsWhenDeviceDoesNotOpen ==
    (Returned("get_client") /\ ~op.opens) => ret.tag = "Err"


MissingDeviceIdentity == Err(Hwi(<<"Device fingerprint not set">>, None))

\* a client, when there is one, is bound to a device, and no per-device
\* operation has failed for lack of a device identity
ClientIsBound ==
    /\ client # None => self.device # None
    /\ (pc = "returned" /\ op.name \in PerDeviceOps) => ret # MissingDeviceIdentity

\* a step changes the client only by a successful get_client or find_device,
\* whose result the new client is
ClientChangesOnlyByBinding ==
    client' # client
        => /\ pc' = "returned"
           /\ op'.name \in {"get_client", "find_device"}
           /\ ret'.tag = "Ok"
           /\ client' = Some(ret'.val)

----------------------------------------------------------------------------
(* SpecThreads: threads that share one bound client of the subprocess      *)
(* backend.  The trait is Send + Sync and every per-device operation takes *)
(* &self, so the threads of a scope may call into the same client.  An     *)
(* operation blocks in execute_command while the child process runs.       *)

Threads == 1..MaxThreads

IdleThread == [pc |-> "idle", op |-> [name |-> "none"], sent |-> <<>>, ret |-> None]

\* the clients get_client returns
BoundClients ==
    { Client(Some(device), expert, chain) :
        device \in Devices, expert \in BOOLEAN, chain \in Chains }

InitThreads ==
    /\ client \in {Some(c) : c \in BoundClients}
    /\ threads = [t \in Threads |-> IdleThread]
    /\ gil = None
    /\ pc = "idle"
    /\ op = [name |-> "none"]
    /\ sent = <<>>
    /\ executed = FALSE
    /\ ret = None

\* thread t enters an operation through run_hwi_command: it blocks in
\* execute_command while the child process runs, or returns at once when
\* the executor is not invoked
ThreadRun(t, call, r) ==
    /\ threads' = [threads EXCEPT ![t] =
                      [pc |-> IF r.executed THEN "waiting" ELSE "returned",
                       op |-> call,
                       sent |-> r.sent,
                       ret |-> IF r.executed THEN None ELSE r.ret]]
    /\ UNCHANGED <<client, pc, op, sent, executed, ret, gil>>

Thread_sign_tx(t) ==
    /\ threads[t].pc = "idle"
    /\ \E psbt \in Psbts, outcome \in ExecutorOutcomes :
          ThreadRun(t, [name |-> "sign_tx", psbt |-> psbt, outcome |-> outcome],
                    run_hwi_command(self.device, self.expert, Some(self.chain),
                                    sign_tx_args(psbt), outcome))

Thread_wipe_device(t) ==
    /\ threads[t].pc = "idle"
    /\ \E outcome \in ExecutorOutcomes :
          ThreadRun(t, [name |-> "wipe_device", outcome |-> outcome],
                    run_hwi_command(self.device, self.expert, Some(self.chain),
                                    wipe_device_args, outcome))

\* the child process of thread t exits: execute_command returns its outcome
Thread_execute_command_returns(t) ==
    /\ threads[t].pc = "waiting"
    /\ threads' = [threads EXCEPT ![t].pc = "returned",
                                  ![t].ret = threads[t].op.outcome]
    /\ UNCHANGED <<client, pc, op, sent, executed, ret, gil>>

\* thread t takes the result
Thread_return(t) ==
    /\ threads[t].pc = "returned"
    /\ threads' = [threads EXCEPT ![t] = IdleThread]
    /\ UNCHANGED <<client, pc, op, sent, executed, ret, gil>>

NextThreads ==
    \E t \in Threads :
        \/ Thread_sign_tx(t)
        \/ Thread_wipe_device(t)
        \/ Thread_execute_command_returns(t)
        \/ Thread_return(t)

SpecThreads == InitThreads /\ [][NextThreads]_vars

\* the threads whose operation on the shared client has started and has not
\* returned
InOperation == {t \in Threads : threads[t].pc = "waiting"}

\* C16: for a single client operations are strictly sequential, and the
\* implementation enforces it: in no reachable state has a second operation
\* on the same client started before the first has returned, even when two
\* threads share the client.
C16_OperationsAreSequential == Cardinality(InOperation) <= 1


----------------------------------------------------------------------------
(* SpecPython: threads that call the embedded backend                      *)
(* (implementations/python_implementation.rs).  Every use of the           *)
(* interpreter is the closure of a Python::with_gil, which takes the       *)
(* interpreter lock before the closure runs and gives it back when the     *)
(* closure leaves, by return, by ? or by panic.                            *)

PyIdleThread ==
    [pc |-> "idle", op |-> [name |-> "none"], sent |-> <<>>, ret |-> None,
     hw_client |-> None]

\* the device the threads ask a client for, and the levels they set
PyDevices == {HWIDevice_try_from(HWIDeviceInternal_deserialize(ObjLedger).val).val}
PyChains == {"Testnet"}
PyLogLevels == {"DEBUG", "ERROR"}

\* what a call into the interpreter gives: a value, or a raised exception
PyOutcomes == {Ok(NotJsonText("garbage")), PyRaised}
\* what HWILib::initialize gives
InitializeOutcomes == {Ok("HWILib"), PyImportFailed}
\* what py_run! gives: it panics when the code raises
PyRunOutcomes == {Ok(Unit), Panic("py_run! failed")}

InitPython ==
    /\ threads = [t \in Threads |-> PyIdleThread]
    /\ gil = None
    /\ client = None
    /\ pc = "idle"
    /\ op = [name |-> "none"]
    /\ sent = <<>>
    /\ executed = FALSE
    /\ ret = None

\* thread t enters a call whose first step is a Python::with_gil
PyEnter(t, call, func_args) ==
    /\ threads' = [threads EXCEPT ![t].pc = "with_gil", ![t].op = call,
                                  ![t].sent = func_args]
    /\ UNCHANGED <<client, pc, op, sent, executed, ret, gil>>

Python_get_version(t) ==
    /\ threads[t].pc = "idle"
    /\ \E outcome \in PyOutcomes :
          PyEnter(t, [name |-> "get_version", stage |-> "call", outcome |-> outcome],
                  <<>>)

Python_set_log_level(t) ==
    /\ threads[t].pc = "idle"
    /\ \E level \in PyLogLevels, outcome \in PyRunOutcomes :
          PyEnter(t, [name |-> "set_log_level", stage |-> "call", level |-> level,
                      outcome |-> outcome],
                  <<level>>)

\* get_client: HWILib::initialize()?, then the call of hwilib's get_client
Python_get_client(t) ==
    /\ threads[t].pc = "idle"
    /\ \E device \in PyDevices, expert \in BOOLEAN, chain \in PyChains,
          libs \in InitializeOutcomes, outcome \in PyOutcomes :
          /\ libs.tag = "Err" => outcome = PyRaised
          /\ PyEnter(t, [name |-> "get_client", stage |-> "initialize",
                         libs |-> libs, outcome |-> outcome],
                     <<HWIDeviceType_to_string(device.device_type), device.path, "",
                       expert, chain>>)

Python_sign_tx(t) ==
    /\ threads[t].pc = "idle"
    /\ threads[t].hw_client # None
    /\ \E psbt \in Psbts, outcome \in PyOutcomes :
          PyEnter(t, [name |-> "sign_tx", stage |-> "call", psbt |-> psbt,
                      outcome |-> outcome],
                  <<threads[t].hw_client[1], psbt>>)

\* the interpreter lock after the closure of with_gil has left with result:
\* the guard is dropped on every way out
with_gil_drop_KeptOnError(holder, result) ==
    IF result.tag = "Ok" THEN None ELSE Some(holder)

with_gil_drop(holder, result) == None

\* Python::with_gil, entry: the thread waits until the lock is free and
\* takes it
with_gil_acquire(t) ==
    /\ threads[t].pc = "with_gil"
    /\ gil = None
    /\ gil' = Some(t)
    /\ threads' = [threads EXCEPT ![t].pc = "inside"]
    /\ UNCHANGED <<client, pc, op, sent, executed, ret>>

\* the result of the closure the thread is inside
ClosureResult(call) == IF call.stage = "initialize" THEN call.libs ELSE call.outcome

\* Python::with_gil, exit: the closure leaves with its result and the lock
\* is given back; after a successful initialize the call goes on to its
\* second with_gil, otherwise it returns
with_gil_leave(t) ==
    /\ threads[t].pc = "inside"
    /\ gil = Some(t)
    /\ LET call == threads[t].op
           result == ClosureResult(call)
       IN /\ gil' = with_gil_drop(t, result)
          /\ threads' =
                IF call.stage = "initialize" /\ result.tag = "Ok"
                THEN [threads EXCEPT ![t].pc = "with_gil", ![t].op.stage = "call"]
                ELSE [threads EXCEPT
                         ![t].pc = "returned",
                         ![t].ret = result,
                         ![t].hw_client =
                             IF call.name = "get_client" /\ result.tag = "Ok"
                             THEN Some(threads[t].sent[2])
                             ELSE threads[t].hw_client]
    /\ UNCHANGED <<client, pc, op, sent, executed, ret>>

\* thread t takes the result; it keeps the client it has
Python_return(t) ==
    /\ threads[t].pc = "returned"
    /\ threads' = [threads EXCEPT ![t] =
                      [PyIdleThread EXCEPT !.hw_client = threads[t].hw_client]]
    /\ UNCHANGED <<client, pc, op, sent, executed, ret, gil>>

NextPython ==
    \E t \in Threads :
        \/ Python_get_version(t)
        \/ Python_set_log_level(t)
        \/ Python_get_client(t)
        \/ Python_sign_tx(t)
        \/ with_gil_acquire(t)
        \/ with_gil_leave(t)
        \/ Python_return(t)

SpecPython == InitPython /\ [][NextPython]_vars

\* the threads inside the interpreter
InsideInterpreter == {t \in Threads : threads[t].pc = "inside"}

----------------------------------------------------------------------------
(* Properties of the strict decode, checked under SpecDecode. *)

\* get_xpub has returned and the backend had answered with text
XpubAnswered == Done("get_xpub") /\ op.outcome.tag = "Ok"

\* part is one of the parts of the message of the error e
MessageHas(e, part) == \E i \in 1..Len(e.msg) : e.msg[i] = part

\* C18: when the answer to a strict single-result call is a tool-reported
\* failure with an error string and a recognized numeric code, the error
\* returned to the caller carries the corresponding symbolic ErrorCode.
C18_ToolFailureCarriesErrorCode ==
    (/\ XpubAnswered
     /\ op.outcome.val.kind = "object"
     /\ op.outcome.val.obj.error # None
     /\ op.outcome.val.obj.code # None
     /\ op.outcome.val.obj.code[1] \in RecognizedCodes)
        => /\ ret.tag = "Err"
           /\ ret.val.code = Some(ErrorCode_try_from(op.outcome.val.obj.code[1]).val)

\* C19: when the backend returns text that is not valid JSON for a strict
\* call such as get_xpub, the call returns an Err of the JSON-decode kind
\* that contains the offending text, and never an Ok value.
C19_MalformedJsonErrorHasText ==
    (XpubAnswered /\ op.outcome.val.kind = "notjson")
        => /\ ret.tag = "Err"
           /\ ret.val.kind = "Json"
           /\ MessageHas(ret.val, op.outcome.val.raw)

\* the half of C19 that is about the kind of the result alone
C19_MalformedJsonIsJsonError ==
    (XpubAnswered /\ op.outcome.val.kind = "notjson")
        => ret.tag = "Err" /\ ret.val.kind = "Json"

\* the answer is valid JSON and does not have the shape of the result type
XpubShapeMismatch ==
    /\ XpubAnswered
    /\ op.outcome.val.kind # "notjson"
    /\ HWIExtendedPubKey_deserialize(op.outcome.val).tag = "Err"

\* C20: when the backend returns valid JSON whose shape does not match the
\* operation's result type, the strict decode fails the whole call with a
\* decode error whose message embeds the conversion diagnostic and a
\* rendering of the offending JSON value, with no symbolic error code.
C20_ShapeMismatchErrorEmbedsValue ==
    XpubShapeMismatch
        => /\ ret.tag = "Err"
           /\ ret.val.kind = "Hwi"
           /\ ret.val.code = None
           /\ MessageHas(ret.val, HWIExtendedPubKey_deserialize(op.outcome.val).val)
           /\ MessageHas(ret.val, DisplayValue(op.outcome.val))

C20_Witness ==
    /\ XpubShapeMismatch
    /\ op.outcome.val.kind = "object"
    /\ op.outcome.val.obj.success = Some(TRUE)
    /\ ret.tag = "Err"
    /\ MessageHas(ret.val, "missing field 'xpub'")
    /\ MessageHas(ret.val, "{\"success\":true}")

----------------------------------------------------------------------------
(* Serialization of the domain values.                                     *)

\* C21: re-decoding the JSON serialization of a domain value of type
\* ExtendedPubKey, Signature, Address or Descriptor succeeds and yields a
\* value equal to the original.
C21_RoundTripIsIdentity ==
    Done("round_trip") => ret = Ok(op.value)

----------------------------------------------------------------------------
(* The arguments the facade builds.                                        *)

\* the index of the first '#' of a text, or one past its end
FirstHash(chars) ==
    IF \E i \in 1..Len(chars) : chars[i] = "#"
    THEN CHOOSE i \in 1..Len(chars) :
            chars[i] = "#" /\ \A j \in 1..(i - 1) : chars[j] # "#"
    ELSE Len(chars) + 1

\* C22: display_address_with_desc passes to the backend the descriptor text
\* up to but excluding the first '#', the whole text when it holds no '#',
\* and stripping twice gives the same as stripping once.
C22_ChecksumStripped ==
    Done("display_address_with_desc")
        => /\ sent[4] = SubSeq(op.descriptor, 1, FirstHash(op.descriptor) - 1)
           /\ (\A i \in 1..Len(op.descriptor) : op.descriptor[i] # "#")
                 => sent[4] = op.descriptor
           /\ strip_checksum(strip_checksum(op.descriptor))
                 = strip_checksum(op.descriptor)

C22_Witness ==
    /\ Done("display_address_with_desc")
    /\ op.descriptor = <<"d", "#", "#">>
    /\ sent[4] = <<"d">>

\* C23: in get_keypool the suffix /* is appended to the derivation path
\* exactly when a path is given: with Some(p) the backend receives p followed
\* by /*, and with None it receives no path.
C23_WildcardExactlyWhenPathGiven ==
    Done("get_keypool")
        => IF op.path = None THEN sent[3] = None
           ELSE sent[3] = Some(op.path[1] \o "/*")

C23_Witness ==
    /\ Done("get_keypool")
    /\ op.path = Some("m/84'/1'/0'")
    /\ sent[3] = Some("m/84'/1'/0'/*")

----------------------------------------------------------------------------
(* The commands of the subprocess backend, continued.                      *)

\* C24: get_keypool accepts every range start <= end, start = end included:
\* the client raises no error of its own and forwards start and end
\* unchanged, in that order, as the last two arguments of the command.
C24_RangeForwardedLast ==
    (Returned("get_keypool") /\ op.start <= op.end)
        => /\ executed
           /\ ret = op.outcome
           /\ Len(sent) >= 2
           /\ sent[Len(sent) - 1] = NatToString(op.start)
           /\ sent[Len(sent)] = NatToString(op.end)

C24_Witness ==
    /\ Returned("get_keypool")
    /\ op.start = 1 /\ op.end = 1
    /\ executed
    /\ ret.tag = "Ok"
    /\ SubSeq(sent, Len(sent) - 1, Len(sent)) = <<"1", "1">>

\* C25: on the subprocess backend set_log_level and install_hwilib return the
\* not-implemented error for every argument and hand no command to the
\* executor.
C25_NotImplementedWithoutCommand ==
    (Returned("set_log_level") \/ Returned("install_hwilib"))
        => /\ ret = Err(ErrorNotImplemented)
           /\ ~executed
           /\ sent = <<>>

C25_Witness ==
    /\ Returned("install_hwilib")
    /\ op.version = "--version"
    /\ ret = Err(ErrorNotImplemented)
    /\ ~executed

\* the name the external tool knows a chain by
ChainName(chain) ==
    CASE chain = "Bitcoin" -> "MAIN"
      [] chain = "Testnet" -> "TEST"
      [] chain = "Regtest" -> "REGTEST"
      [] chain = "Signet" -> "SIGNET"

\* C26: every per-device call on a bound client carries the chain the client
\* was bound with: the token vector handed to the executor holds --chain
\* immediately followed by the name of that chain (MAIN, TEST, REGTEST or
\* SIGNET), ahead of the operation's arguments, and distinct chains give
\* distinct names.
C26_ChainOfTheClientIsSent ==
    /\ (pc = "returned" /\ op.name \in PerDeviceOps)
          => /\ executed
             /\ FlagCount >= 2
             /\ sent[FlagCount - 1] = "--chain"
             /\ sent[FlagCount] = ChainName(self.chain)
             /\ HWIChain_to_string(self.chain) = ChainName(self.chain)
    /\ \A c1 \in Chains, c2 \in Chains :
          HWIChain_to_string(c1) = HWIChain_to_string(c2) => c1 = c2

C26_Witness ==
    /\ Returned("sign_tx")
    /\ self.chain = "Signet"
    /\ executed
    /\ FlagWithValue(sent, "--chain", "SIGNET")

\* the operations that call run_hwi_command without a device
WithoutDevice == op.name \in {"enumerate", "find_device", "get_version", "install_udev_rules"}

\* C27: the missing-device guard is in run_hwi_command: invoked without a
\* device for a command that is neither enumerate nor the version query it
\* returns the error 'Device fingerprint not set' and the executor is not
\* invoked, so no command of a per-device operation is sent without a
\* fingerprint.
C27_GuardAtLowestLayer ==
    /\ (pc = "returned" /\ WithoutDevice
           /\ Head(OperationArgs) \notin {"enumerate", "--version"})
          => /\ ~executed
             /\ ret = Err(Hwi(<<"Device fingerprint not set">>, None))
    /\ (pc = "returned" /\ op.name \in PerDeviceOps /\ executed)
          => Contains(sent, "--fingerprint")

\* C28 as stated: the subprocess backend neither alters nor swallows the
\* executor's outcome: every operation that reaches the executor returns
\* Ok of the same text when the executor returns Ok(text), and the same
\* error when it returns Err(e).
C28_ExecutorOutcomeUnchanged ==
    (pc = "returned" /\ executed) => ret = op.outcome

\* C28: every operation that reaches the executor, find_device apart,
\* returns the executor's outcome unchanged, Ok(text) as Ok of the same text
\* and Err(e) as the same error; find_device returns the executor's error
\* unchanged and decodes the executor's text into the client it returns.
C28_TextOperationsReturnExecutorOutcome ==
    /\ (pc = "returned" /\ executed /\ op.name # "find_device")
          => ret = op.outcome
    /\ (Returned("find_device") /\ executed /\ op.outcome.tag = "Err")
          => ret = op.outcome
    /\ (Returned("find_device") /\ executed /\ ret.tag = "Ok")
          => /\ op.outcome.tag = "Ok"
             /\ op.outcome.val.kind = "array"
             /\ ret.val.device # None

C28_Witness ==
    /\ Returned("sign_tx")
    /\ executed
    /\ op.outcome = ExecutorFailed
    /\ ret = ExecutorFailed

\* the --expert flag is among the tokens ahead of the operation's arguments
ExpertFlagSent == \E i \in 1..FlagCount : sent[i] = "--expert"

\* C29: the --expert flag is in a command exactly when the expert setting in
\* effect is true: the call's own expert argument for get_xpub, whatever the
\* client was bound with, and the client's bound setting for every other
\* per-device operation; enumerate, get_version and install_udev_rules never
\* carry --expert.
C29_ExpertFlagIffInEffect ==
    /\ Returned("get_xpub") => (executed /\ (ExpertFlagSent <=> op.expert))
    /\ (pc = "returned" /\ op.name \in PerDeviceOps \ {"get_xpub"})
          => (executed /\ (ExpertFlagSent <=> self.expert))
    /\ (pc = "returned" /\ op.name \in {"enumerate", "get_version", "install_udev_rules"})
          => ~Contains(sent, "--expert")

C29_Witness ==
    /\ Returned("get_xpub")
    /\ op.expert /\ ~self.expert
    /\ executed
    /\ sent[3] = "--expert"

----------------------------------------------------------------------------
(* The two decodes of a device record.                                     *)

\* enumerate's decode of one record: HWIDeviceInternal, then try_from
TolerantDecode(o) == HWIDevice_try_from(HWIDeviceInternal_deserialize(o).val)

\* C30: the two decode paths for device records agree: every record that
\* enumerate's tolerant decode turns into Ok(d) is decoded by find_device's
\* strict decode into the same device d, records of type 'digitalbitbox' or
\* of a device name outside the closed set included; an answer made of such
\* records never fails find_device's decode.
C30_DecodePathsAgree ==
    (/\ Returned("find_device")
     /\ executed
     /\ op.outcome.tag = "Ok"
     /\ op.outcome.val.kind = "array")
        => LET items == op.outcome.val.items IN
           /\ \A i \in 1..Len(items) :
                 TolerantDecode(items[i]).tag = "Ok"
                    => /\ HWIDevice_deserialize(items[i]).tag = "Ok"
                       /\ HWIDevice_deserialize(items[i]).val
                             = TolerantDecode(items[i]).val
           /\ (\A i \in 1..Len(items) : TolerantDecode(items[i]).tag = "Ok")
                 => (ret.tag = "Ok" \/ ret = DeviceNotFound)

====
